---- MODULE Spec2Model ----
(***************************************************************************)
(* A model of ribeye: the RibEye coordinator (src/src/lib.rs), the         *)
(* MessageProcessor trait with its default output() (processors/mod.rs)    *)
(* and the four built-in processors (peer_stats.rs, pfx2as.rs, as2rel.rs,  *)
(* pfx2dist.rs).                                                           *)
(*                                                                         *)
(* Option<T> is modelled as a sequence of length 0 (None) or 1 (Some).     *)
(* A HashMap is a function whose DOMAIN is the set of keys present.        *)
(* The order of the entries of a result document follows the iteration     *)
(* order of a HashMap, which the code does not fix: a document carries     *)
(* its entries as a set.                                                   *)
(***************************************************************************)
EXTENDS Integers, Sequences, FiniteSets, TLC

\* ------------------------------------------------------------------ bounds
\* processors registered with one coordinator
MaxProcs == 2
\* elements in the RIB file read by process_mrt_file
MaxElems == 2
\* calls of process_mrt_file on one coordinator
MaxRuns == 2
\* process_entry calls made on one processor driven directly
MaxFeed == 3

\* ------------------------------------------------------- program constants
\* u32::MAX and usize::MAX are used by the code as "larger than any path
\* length / any index"; TLC integers are 32-bit signed, so both stand at the
\* largest value TLC represents.
U32_MAX == 2147483647
USIZE_MAX == 2147483647

TIER1 ==
    {6762, 12956, 2914, 3356, 6453, 1239, 701, 6461, 3257, 1299, 3491, 7018,
     3320, 5511, 6830, 174, 6939}

\* ---------------------------------------------------------------- helpers
None == << >>
Some(x) == << x >>
IsSome(o) == Len(o) = 1
Unwrap(o) == o[1]

Last(s) == s[Len(s)]

Reverse(s) == [i \in 1..Len(s) |-> s[Len(s) + 1 - i]]

\* Vec::dedup : drops every element equal to the one before it
RECURSIVE Dedup(_)
Dedup(s) ==
    IF Len(s) <= 1 THEN s
    ELSE LET d == Dedup(Tail(s))
         IN  IF Head(s) = Head(d) THEN d ELSE << Head(s) >> \o d

\* HashMap::entry(k).or_insert(v): the map with k present, v if it was absent
OrInsert(m, k, v) ==
    [x \in DOMAIN m \cup {k} |-> IF x \in DOMAIN m THEN m[x] ELSE v]

EmptyMap == << >>

\* ------------------------------------------------------------------- data
\* RibMeta { project, collector, rib_dump_url, timestamp }
Meta1 ==
    [project |-> "riperis", collector |-> "rrc00", rib_dump_url |-> "url-rrc00",
     timestamp |-> [year |-> 2023, month |-> 8, day |-> 6, secs |-> 1691280000]]
Meta2 ==
    [project |-> "route-views", collector |-> "route-views2",
     rib_dump_url |-> "url-rv2",
     timestamp |-> [year |-> 2023, month |-> 8, day |-> 7, secs |-> 1691366400]]
Metas == {Meta1, Meta2}

\* IpNet: address family, address, prefix length
Net4Default == [fam |-> 4, addr |-> "0.0.0.0", len |-> 0]
Net4A == [fam |-> 4, addr |-> "198.51.100.0", len |-> 24]
Net4B == [fam |-> 4, addr |-> "203.0.113.0", len |-> 24]
Net6Default == [fam |-> 6, addr |-> "::", len |-> 0]
Net6A == [fam |-> 6, addr |-> "2001:db8::", len |-> 32]
Nets == {Net4Default, Net4A, Net4B, Net6Default, Net6A}

\* Display of a prefix: "<addr>/<len>", one string per network
PrefixToString(p) ==
    CASE p = Net4Default -> "0.0.0.0/0"
      [] p = Net4A -> "198.51.100.0/24"
      [] p = Net4B -> "203.0.113.0/24"
      [] p = Net6Default -> "::/0"
      [] p = Net6A -> "2001:db8::/32"

\* An AS path: absent (as_path == None), or segments; simple = FALSE stands
\* for a path holding an AS set or a confederation segment.
NoPath == [present |-> FALSE, simple |-> FALSE, asns |-> << >>]
SetPath == [present |-> TRUE, simple |-> FALSE, asns |-> << 65001, 65002 >>]
SeqPath(s) == [present |-> TRUE, simple |-> TRUE, asns |-> s]

\* AsPath::to_u32_vec_opt(dedup): None unless the path is a plain sequence,
\* else its AS numbers, consecutive duplicates collapsed when dedup is set
To_u32_vec_opt(path, dedup) ==
    IF ~path.simple THEN None
    ELSE Some(IF dedup THEN Dedup(path.asns) ELSE path.asns)

Elem(t, ip, asn, net, path) ==
    [elem_type |-> t, peer_ip |-> ip, peer_asn |-> asn, prefix |-> net,
     as_path |-> path]

Peer1 == "192.0.2.1"
Peer2 == "192.0.2.2"

OutputDir == "results"

\* ------------------------------------------------------------- processors
\* The four built-in processors, and two user-defined implementations of
\* the trait that count elements as examples/entry_counter.rs does and keep
\* the trait's default to_result_string: MemCounter reports no output
\* paths, FileCounter reports one.
BuiltinKinds == {"peer-stats", "pfx2as", "as2rel", "pfx2dist"}
MemCounter == "mem-counter"
FileCounter == "file-counter"
UserKinds == {MemCounter, FileCounter}
\* RibEye::default_processors: Prefix2DistProcessor is disabled by default
DefaultKinds == {"peer-stats", "pfx2as", "as2rel"}
\* the kinds registered with a coordinator
Kinds == DefaultKinds \cup UserKinds

\* XxxProcessor::new(output_dir) / EntryCounter::new()
NewProcessor(kind) ==
    [kind |-> kind,
     rib_meta |-> None,
     map |-> IF kind \in UserKinds THEN [a_count |-> 0, w_count |-> 0]
             ELSE EmptyMap]

\* reset_processor(rib_meta): the four built-in bodies are the same line
ResetProcessor(p, rib_meta) == [p EXCEPT !.rib_meta = Some(rib_meta)]

\* PeerInfo::new_from_ip
PeerInfoNew(ip, asn, collector) ==
    [collector |-> collector, ip |-> ip, asn |-> asn,
     ipv4_pfxs |-> {}, ipv6_pfxs |-> {}, num_connected_asns |-> {},
     ipv4_default |-> FALSE, ipv6_default |-> FALSE]

\* mutant of PeerStatsProcessEntry: a default route sets the flag and is
\* left out of the network set
PeerStatsProcessEntry_skipDefault(p, elem) ==
    LET collector == IF IsSome(p.rib_meta)
                     THEN Some(Unwrap(p.rib_meta).collector) ELSE None
        m1 == OrInsert(p.map, elem.peer_ip,
                       PeerInfoNew(elem.peer_ip, elem.peer_asn, collector))
        info == m1[elem.peer_ip]
        seq == IF elem.as_path.present
               THEN To_u32_vec_opt(elem.as_path, TRUE) ELSE None
        i1 == IF IsSome(seq) /\ Len(Unwrap(seq)) > 0
              THEN [info EXCEPT !.num_connected_asns = @ \cup {Head(Unwrap(seq))}]
              ELSE info
        i2 == IF elem.prefix.fam = 4
              THEN IF elem.prefix.len = 0
                   THEN [i1 EXCEPT !.ipv4_default = TRUE]
                   ELSE [i1 EXCEPT !.ipv4_pfxs = @ \cup {elem.prefix}]
              ELSE IF elem.prefix.len = 0
                   THEN [i1 EXCEPT !.ipv6_default = TRUE]
                   ELSE [i1 EXCEPT !.ipv6_pfxs = @ \cup {elem.prefix}]
    IN  IF elem.elem_type # "ANNOUNCE"
        THEN [p EXCEPT !.map = m1]
        ELSE [p EXCEPT !.map = [m1 EXCEPT ![elem.peer_ip] = i2]]

\* mutant of PeerStatsProcessEntry: the record is looked up after the
\* ANNOUNCE test and its AS number follows the element
PeerStatsProcessEntry_announceFirst(p, elem) ==
    LET collector == IF IsSome(p.rib_meta)
                     THEN Some(Unwrap(p.rib_meta).collector) ELSE None
        m1 == OrInsert(p.map, elem.peer_ip,
                       PeerInfoNew(elem.peer_ip, elem.peer_asn, collector))
        info == [m1[elem.peer_ip] EXCEPT !.asn = elem.peer_asn]
        seq == IF elem.as_path.present
               THEN To_u32_vec_opt(elem.as_path, TRUE) ELSE None
        i1 == IF IsSome(seq) /\ Len(Unwrap(seq)) > 0
              THEN [info EXCEPT !.num_connected_asns = @ \cup {Head(Unwrap(seq))}]
              ELSE info
        i2 == IF elem.prefix.fam = 4
              THEN [i1 EXCEPT !.ipv4_default = (elem.prefix.len = 0) \/ @,
                              !.ipv4_pfxs = @ \cup {elem.prefix}]
              ELSE [i1 EXCEPT !.ipv6_default = (elem.prefix.len = 0) \/ @,
                              !.ipv6_pfxs = @ \cup {elem.prefix}]
    IN  IF elem.elem_type # "ANNOUNCE"
        THEN p
        ELSE [p EXCEPT !.map = [m1 EXCEPT ![elem.peer_ip] = i2]]

\* mutant of PeerStatsProcessEntry: a default route of either family sets
\* the default-route flags of both families
PeerStatsProcessEntry_bothFlags(p, elem) ==
    LET collector == IF IsSome(p.rib_meta)
                     THEN Some(Unwrap(p.rib_meta).collector) ELSE None
        m1 == OrInsert(p.map, elem.peer_ip,
                       PeerInfoNew(elem.peer_ip, elem.peer_asn, collector))
        info == m1[elem.peer_ip]
        seq == IF elem.as_path.present
               THEN To_u32_vec_opt(elem.as_path, TRUE) ELSE None
        i1 == IF IsSome(seq) /\ Len(Unwrap(seq)) > 0
              THEN [info EXCEPT !.num_connected_asns = @ \cup {Head(Unwrap(seq))}]
              ELSE info
        i2 == IF elem.prefix.fam = 4
              THEN [i1 EXCEPT !.ipv4_default = (elem.prefix.len = 0) \/ @,
                              !.ipv6_default = (elem.prefix.len = 0) \/ @,
                              !.ipv4_pfxs = @ \cup {elem.prefix}]
              ELSE [i1 EXCEPT !.ipv6_default = (elem.prefix.len = 0) \/ @,
                              !.ipv4_default = (elem.prefix.len = 0) \/ @,
                              !.ipv6_pfxs = @ \cup {elem.prefix}]
    IN  IF elem.elem_type # "ANNOUNCE"
        THEN [p EXCEPT !.map = m1]
        ELSE [p EXCEPT !.map = [m1 EXCEPT ![elem.peer_ip] = i2]]

\* PeerStatsProcessor::process_entry
PeerStatsProcessEntry(p, elem) ==
    LET collector == IF IsSome(p.rib_meta)
                     THEN Some(Unwrap(p.rib_meta).collector) ELSE None
        m1 == OrInsert(p.map, elem.peer_ip,
                       PeerInfoNew(elem.peer_ip, elem.peer_asn, collector))
        info == m1[elem.peer_ip]
        seq == IF elem.as_path.present
               THEN To_u32_vec_opt(elem.as_path, TRUE) ELSE None
        i1 == IF IsSome(seq) /\ Len(Unwrap(seq)) > 0
              THEN [info EXCEPT !.num_connected_asns = @ \cup {Head(Unwrap(seq))}]
              ELSE info
        i2 == IF elem.prefix.fam = 4
              THEN [i1 EXCEPT !.ipv4_default = (elem.prefix.len = 0) \/ @,
                              !.ipv4_pfxs = @ \cup {elem.prefix}]
              ELSE [i1 EXCEPT !.ipv6_default = (elem.prefix.len = 0) \/ @,
                              !.ipv6_pfxs = @ \cup {elem.prefix}]
    IN  IF elem.elem_type # "ANNOUNCE"
        THEN [p EXCEPT !.map = m1]
        ELSE [p EXCEPT !.map = [m1 EXCEPT ![elem.peer_ip] = i2]]

\* mutant of Pfx2asProcessEntry: takes the first AS of the path as the origin
Pfx2asProcessEntry_head(p, elem) ==
    IF elem.elem_type # "ANNOUNCE" THEN p
    ELSE IF elem.prefix.len = 0 THEN p
    ELSE IF ~elem.as_path.present THEN p
    ELSE LET o == To_u32_vec_opt(elem.as_path, FALSE)
         IN  IF ~IsSome(o) THEN p
             ELSE IF Len(Unwrap(o)) = 0 THEN p
             ELSE LET key == << PrefixToString(elem.prefix), Head(Unwrap(o)) >>
                      m1 == OrInsert(p.map, key, 0)
                  IN  [p EXCEPT !.map = [m1 EXCEPT ![key] = @ + 1]]

\* Prefix2AsProcessor::process_entry
Pfx2asProcessEntry(p, elem) ==
    IF elem.elem_type # "ANNOUNCE" THEN p
    ELSE IF elem.prefix.len = 0 THEN p
    ELSE IF ~elem.as_path.present THEN p
    ELSE LET o == To_u32_vec_opt(elem.as_path, FALSE)
         IN  IF ~IsSome(o) THEN p
             ELSE IF Len(Unwrap(o)) = 0 THEN p
             ELSE LET key == << PrefixToString(elem.prefix), Last(Unwrap(o)) >>
                      m1 == OrInsert(p.map, key, 0)
                  IN  [p EXCEPT !.map = [m1 EXCEPT ![key] = @ + 1]]

\* mutant of As2relRecord: the observer set holds the last observer only
As2relRecord_lastPeer(m, key, peer_ip) ==
    LET m1 == OrInsert(m, key, [count |-> 0, peers |-> {}])
    IN  [m1 EXCEPT ![key] = [count |-> @.count + 1, peers |-> {peer_ip}]]

\* mutant of As2relRecord: the counter is set when the key is created and
\* left alone afterwards
As2relRecord_countOnce(m, key, peer_ip) ==
    LET m1 == OrInsert(m, key, [count |-> 1, peers |-> {}])
    IN  [m1 EXCEPT ![key] = [count |-> @.count,
                             peers |-> @.peers \cup {peer_ip}]]

\* one evidence record: the counter of key goes up by one, peer_ip joins
\* the key's observer set
As2relRecord(m, key, peer_ip) ==
    LET m1 == OrInsert(m, key, [count |-> 0, peers |-> {}])
    IN  [m1 EXCEPT ![key] = [count |-> @.count + 1,
                             peers |-> @.peers \cup {peer_ip}]]

\* mutant of As2relWindows: the key holds the smaller AS number first
RECURSIVE As2relWindows_canonical(_, _, _, _)
As2relWindows_canonical(m, path, i, peer_ip) ==
    IF i >= Len(path) THEN m
    ELSE LET lo == IF path[i] <= path[i + 1] THEN path[i] ELSE path[i + 1]
             hi == IF path[i] <= path[i + 1] THEN path[i + 1] ELSE path[i]
         IN  As2relWindows_canonical(
                 As2relRecord(m, << lo, hi, 0 >>, peer_ip), path, i + 1, peer_ip)

\* the tuple_windows loop: pairs (path[i], path[i+1]) from index i on, code 0
RECURSIVE As2relWindows(_, _, _, _)
As2relWindows(m, path, i, peer_ip) ==
    IF i >= Len(path) THEN m
    ELSE As2relWindows(As2relRecord(m, << path[i], path[i + 1], 0 >>, peer_ip),
                       path, i + 1, peer_ip)

\* index (from 0) of the first Tier-1 AS of rev, usize::MAX when there is none
FirstTier1(rev) ==
    LET hits == {i \in 0..(Len(rev) - 1) : rev[i + 1] \in TIER1}
    IN  IF hits = {} THEN USIZE_MAX
        ELSE CHOOSE i \in hits : \A j \in hits : i <= j

\* the "origin to first tier 1" loop: for i in i..first_tier1, code 1
RECURSIVE As2relUpstream(_, _, _, _, _)
As2relUpstream(m, rev, i, first_tier1, peer_ip) ==
    IF i >= first_tier1 THEN m
    ELSE As2relUpstream(
             As2relRecord(m, << rev[i + 2], rev[i + 1], 1 >>, peer_ip),
             rev, i + 1, first_tier1, peer_ip)

\* As2relProcessor::process_entry
As2relProcessEntry(p, elem) ==
    IF elem.elem_type # "ANNOUNCE" THEN p
    ELSE IF elem.prefix.len = 0 THEN p
    ELSE IF ~elem.as_path.present THEN p
    ELSE LET o == To_u32_vec_opt(elem.as_path, TRUE)
         IN  IF ~IsSome(o) THEN p
             ELSE LET u32_path == Unwrap(o)
                      m0 == As2relWindows(p.map, u32_path, 1, elem.peer_ip)
                      contains_tier1 ==
                          \E i \in 1..Len(u32_path) : u32_path[i] \in TIER1
                      rev == Reverse(u32_path)
                      first_tier1 == FirstTier1(rev)
                  IN  IF ~contains_tier1 THEN [p EXCEPT !.map = m0]
                      ELSE IF first_tier1 < Len(rev) - 1
                      THEN [p EXCEPT !.map =
                               As2relUpstream(m0, rev, 0, first_tier1,
                                              elem.peer_ip)]
                      ELSE [p EXCEPT !.map = m0]

\* mutant of Pfx2distProcessEntry: the distance of the last path is kept
Pfx2distProcessEntry_last(p, elem) ==
    IF elem.elem_type # "ANNOUNCE" THEN p
    ELSE IF elem.prefix.len = 0 THEN p
    ELSE IF ~elem.as_path.present THEN p
    ELSE LET o == To_u32_vec_opt(elem.as_path, TRUE)
         IN  IF ~IsSome(o) THEN p
             ELSE IF Len(Unwrap(o)) = 0 THEN p
             ELSE LET key == << elem.prefix, Head(Unwrap(o)) >>
                      m1 == OrInsert(p.map, key, U32_MAX)
                  IN  [p EXCEPT !.map = [m1 EXCEPT ![key] = Len(Unwrap(o))]]

\* mutant of Pfx2distProcessEntry: the element type is not looked at
Pfx2distProcessEntry_anyType(p, elem) ==
    IF elem.prefix.len = 0 THEN p
    ELSE IF ~elem.as_path.present THEN p
    ELSE LET o == To_u32_vec_opt(elem.as_path, TRUE)
         IN  IF ~IsSome(o) THEN p
             ELSE IF Len(Unwrap(o)) = 0 THEN p
             ELSE LET key == << elem.prefix, Head(Unwrap(o)) >>
                      m1 == OrInsert(p.map, key, U32_MAX)
                  IN  IF Len(Unwrap(o)) < m1[key]
                      THEN [p EXCEPT !.map = [m1 EXCEPT ![key] = Len(Unwrap(o))]]
                      ELSE [p EXCEPT !.map = m1]

\* Prefix2DistProcessor::process_entry
Pfx2distProcessEntry(p, elem) ==
    IF elem.elem_type # "ANNOUNCE" THEN p
    ELSE IF elem.prefix.len = 0 THEN p
    ELSE IF ~elem.as_path.present THEN p
    ELSE LET o == To_u32_vec_opt(elem.as_path, TRUE)
         IN  IF ~IsSome(o) THEN p
             ELSE IF Len(Unwrap(o)) = 0 THEN p
             ELSE LET key == << elem.prefix, Head(Unwrap(o)) >>
                      m1 == OrInsert(p.map, key, U32_MAX)
                  IN  IF Len(Unwrap(o)) < m1[key]
                      THEN [p EXCEPT !.map = [m1 EXCEPT ![key] = Len(Unwrap(o))]]
                      ELSE [p EXCEPT !.map = m1]

\* EntryCounter::process_entry
CounterProcessEntry(p, elem) ==
    IF elem.elem_type = "ANNOUNCE"
    THEN [p EXCEPT !.map.a_count = @ + 1]
    ELSE [p EXCEPT !.map.w_count = @ + 1]

\* dyn MessageProcessor::process_entry, the state after a call returning Ok
ProcessEntry(p, elem) ==
    CASE p.kind = "peer-stats" -> PeerStatsProcessEntry(p, elem)
      [] p.kind = "pfx2as" -> Pfx2asProcessEntry(p, elem)
      [] p.kind = "as2rel" -> As2relProcessEntry(p, elem)
      [] p.kind = "pfx2dist" -> Pfx2distProcessEntry(p, elem)
      [] OTHER -> CounterProcessEntry(p, elem)

\* what process_entry of a built-in processor returns: every branch ends in
\* Ok(()), and the call panics where an unwrap meets None. The only unwrap
\* on a value that depends on the element is u32_path.get(i + 1).unwrap()
\* in the "origin to first tier 1" loop of As2relProcessor.
ProcessEntryReturn(p, elem) ==
    IF /\ p.kind = "as2rel"
       /\ elem.elem_type = "ANNOUNCE"
       /\ elem.prefix.len # 0
       /\ elem.as_path.present
       /\ IsSome(To_u32_vec_opt(elem.as_path, TRUE))
    THEN LET rev == Reverse(Unwrap(To_u32_vec_opt(elem.as_path, TRUE)))
             first_tier1 == FirstTier1(rev)
         IN  IF /\ \E i \in 1..Len(rev) : rev[i] \in TIER1
                /\ first_tier1 < Len(rev) - 1
                /\ \E i \in 0..(first_tier1 - 1) : i + 1 >= Len(rev)
             THEN "panic" ELSE "ok"
    ELSE "ok"

\* ------------------------------------------------------ output and targets
\* ProcessorMeta { name, output_dir }
ProcessorMeta(kind) == [name |-> kind, output_dir |-> OutputDir]

\* mutant of GetDefaultOutputPath: the file name ends with the calendar
\* date, the timestamp is left out
GetDefaultOutputPath_dateOnly(rib_meta, processor_meta) ==
    << "archive", processor_meta.output_dir, processor_meta.name,
       rib_meta.collector, rib_meta.timestamp.year, rib_meta.timestamp.month,
       processor_meta.name, rib_meta.collector, rib_meta.timestamp.year,
       rib_meta.timestamp.month, rib_meta.timestamp.day, 0 >>

\* the archival path: the arguments of the two format! calls, in order
\*   {output_dir}/{name}/{collector}/{year}/{month}/
\*   {name}_{collector}_{year}-{month}-{day}_{timestamp}.json.bz2
GetDefaultOutputPath(rib_meta, processor_meta) ==
    << "archive", processor_meta.output_dir, processor_meta.name,
       rib_meta.collector, rib_meta.timestamp.year, rib_meta.timestamp.month,
       processor_meta.name, rib_meta.collector, rib_meta.timestamp.year,
       rib_meta.timestamp.month, rib_meta.timestamp.day,
       rib_meta.timestamp.secs >>

\* the characters of the strings the paths are built from
Chars(s) ==
    CASE s = "results" ->
            << "r", "e", "s", "u", "l", "t", "s" >>
      [] s = "peer-stats" ->
            << "p", "e", "e", "r", "-", "s", "t", "a", "t", "s" >>
      [] s = "pfx2as" ->
            << "p", "f", "x", "2", "a", "s" >>
      [] s = "as2rel" ->
            << "a", "s", "2", "r", "e", "l" >>
      [] s = "pfx2dist" ->
            << "p", "f", "x", "2", "d", "i", "s", "t" >>
      [] s = "rrc00" ->
            << "r", "r", "c", "0", "0" >>
      [] s = "route-views2" ->
            << "r", "o", "u", "t", "e", "-", "v", "i", "e", "w", "s", "2" >>

\* the decimal digits of n >= 0, as format!("{}", n) prints them
RECURSIVE Digits(_)
Digits(n) ==
    LET d == << "0", "1", "2", "3", "4", "5", "6", "7", "8", "9" >>[(n % 10) + 1]
    IN  IF n < 10 THEN << d >> ELSE Append(Digits(n \div 10), d)

\* format!("{:0w$}", n): the digits of n, zeros in front up to width w
RECURSIVE Pad(_, _)
Pad(s, w) == IF Len(s) >= w THEN s ELSE Pad(<< "0" >> \o s, w)

\* the string the two format! calls of get_output_path build from their
\* arguments, character by character
FormatOutputPath(args) ==
    Chars(args[2]) \o << "/" >> \o Chars(args[3]) \o << "/" >>
        \o Chars(args[4]) \o << "/" >> \o Pad(Digits(args[5]), 4)
        \o << "/" >> \o Pad(Digits(args[6]), 2) \o << "/" >>
        \o Chars(args[7]) \o << "_" >> \o Chars(args[8]) \o << "_" >>
        \o Pad(Digits(args[9]), 4) \o << "-" >> \o Pad(Digits(args[10]), 2)
        \o << "-" >> \o Pad(Digits(args[11]), 2) \o << "_" >>
        \o Digits(args[12])
        \o << ".", "j", "s", "o", "n", ".", "b", "z", "2" >>

\* the "latest" path: one per processor and collector, no timestamp
GetLatestOutputPath(rib_meta, processor_meta) ==
    << "latest", processor_meta.output_dir, processor_meta.name,
       rib_meta.collector >>

\* the one path FileCounter reports
FileCounterPath == << "latest", OutputDir, FileCounter, "all" >>

\* output_paths() and to_result_string() of a built-in processor unwrap
\* rib_meta: they panic until reset_processor has been called
UnwrapsNone(p) == p.kind \in BuiltinKinds /\ ~IsSome(p.rib_meta)

\* MessageProcessor::output_paths
OutputPaths(p) ==
    IF p.kind \in BuiltinKinds
    THEN Some(<< GetDefaultOutputPath(Unwrap(p.rib_meta), ProcessorMeta(p.kind)),
                 GetLatestOutputPath(Unwrap(p.rib_meta), ProcessorMeta(p.kind)) >>)
    ELSE IF p.kind = FileCounter THEN Some(<< FileCounterPath >>)
    ELSE None

\* PeerInfoEntry::from(&PeerInfo)
PeerInfoEntry(info) ==
    [ip |-> info.ip, collector |-> info.collector, asn |-> info.asn,
     num_v4_pfxs |-> Cardinality(info.ipv4_pfxs),
     num_v6_pfxs |-> Cardinality(info.ipv6_pfxs),
     num_connected_asns |-> Cardinality(info.num_connected_asns),
     has_v4_default |-> info.ipv4_default,
     has_v6_default |-> info.ipv6_default]

\* get_count_vec / the peers collection: the entries of a result document
Entries(p) ==
    CASE p.kind = "peer-stats" ->
            {PeerInfoEntry(p.map[ip]) : ip \in DOMAIN p.map}
      [] p.kind = "pfx2as" ->
            {[prefix |-> k[1], asn |-> k[2], count |-> p.map[k]] :
                k \in DOMAIN p.map}
      [] p.kind = "as2rel" ->
            {[asn1 |-> k[1], asn2 |-> k[2], paths_count |-> p.map[k].count,
              peers_count |-> Cardinality(p.map[k].peers), rel |-> k[3]] :
                k \in DOMAIN p.map}
      [] p.kind = "pfx2dist" ->
            {[prefix |-> k[1], collector_asn |-> k[2], distance |-> p.map[k]] :
                k \in DOMAIN p.map}

\* MessageProcessor::to_result_string: the trait default is None, the
\* built-in processors serialize meta and entries
ToResultString(p) ==
    IF p.kind \in BuiltinKinds
    THEN Some([project |-> Unwrap(p.rib_meta).project,
               collector |-> Unwrap(p.rib_meta).collector,
               rib_dump_url |-> Unwrap(p.rib_meta).rib_dump_url,
               entries |-> Entries(p)])
    ELSE None

\* a stored artifact: the string written, whole or cut short
Whole(doc) == [complete |-> TRUE, doc |-> doc]
Partial(doc) == [complete |-> FALSE, doc |-> doc]

\* the store after the first n paths were written with doc
RECURSIVE WriteAll(_, _, _, _)
WriteAll(st, paths, n, doc) ==
    IF n = 0 THEN st
    ELSE LET s1 == WriteAll(st, paths, n - 1, doc)
         IN  [x \in DOMAIN s1 \cup {paths[n]} |->
                 IF x = paths[n] THEN Whole(doc) ELSE s1[x]]

\* ------------------------------------------------------------------ state
VARIABLES
    processors,   \* RibEye.processors: the registered processors, in order
    src,          \* the elements the RIB file yields, in order
    store,        \* the output directory: path -> artifact written there
    pc,           \* where process_mrt_file stands: idle, processing, output,
                  \* failed (it returned Err), panicked (an unwrap on None)
    ei,           \* index in src of the element being fanned out
    pi,           \* index in processors of the next processor to be called
    run,          \* calls of process_mrt_file made so far
    result,       \* what the last call of process_mrt_file returned
    log,          \* the calls the current run has made, in order
    store0,       \* the store as it was when the current run started
    was_reset,    \* initialize_processors was called since the last run
    cur_meta,     \* the RibMeta of the last initialize_processors call
    hist,         \* per run that returned Ok: the RibMeta the processors
                  \* held and the documents of the processors
    fed,          \* the elements passed to a processor driven directly
    sum,          \* the last summarize_latest call: its arguments, what it
                  \* returned, the artifacts it read, its merged map
    cook          \* the cook command: its snapshot list, where each
                  \* per-snapshot coordinator stands, the blocks of the files

vars ==
    << processors, src, store, pc, ei, pi, run, result, log, store0,
       was_reset, cur_meta, hist, fed, sum, cook >>

\* the elements of the RIB files the coordinator is run on
FileElems ==
    { Elem("ANNOUNCE", Peer1, 64500, Net4A, SeqPath(<< 65001, 65002 >>)),
      Elem("WITHDRAW", Peer2, 64501, Net4A, NoPath) }

\* no summarize_latest call was made yet
NoSum ==
    [rib_metas |-> << >>, ignore_error |-> FALSE, ret |-> "none",
     reads |-> << >>, merged |-> EmptyMap]

\* the cook command is not running
NoCook == [rib_metas |-> << >>, inst |-> << >>, files |-> EmptyMap]

RECURSIVE SeqsUpTo(_, _)
SeqsUpTo(S, n) ==
    IF n = 0 THEN { << >> }
    ELSE LET shorter == SeqsUpTo(S, n - 1)
         IN  shorter \cup
             {Append(s, x) : s \in {t \in shorter : Len(t) = n - 1}, x \in S}

Init ==
    /\ processors = << >>
    /\ src \in SeqsUpTo(FileElems, MaxElems)
    /\ store = EmptyMap
    /\ pc = "idle"
    /\ ei = 0
    /\ pi = 0
    /\ run = 0
    /\ result = "none"
    /\ log = << >>
    /\ store0 = EmptyMap
    /\ was_reset = FALSE
    /\ cur_meta = None
    /\ hist = << >>
    /\ fed = << >>
    /\ sum = NoSum
    /\ cook = NoCook

\* a call the coordinator made and what it returned: process_entry of
\* processor proc on element elem of the file, output of processor proc, or
\* the opening of the file
Call(op, proc, elem, ret) ==
    [op |-> op, proc |-> proc, elem |-> elem, ret |-> ret]

\* RibEye::add_processor. The processors are registered before the first
\* run and each kind once, as with_processor_names and the cook command do.
AddProcessor(kind) ==
    /\ pc = "idle"
    /\ run = 0
    /\ Len(processors) < MaxProcs
    /\ \A i \in 1..Len(processors) : processors[i].kind # kind
    /\ processors' = Append(processors, NewProcessor(kind))
    /\ UNCHANGED << src, store, pc, ei, pi, run, result, log, store0,
                    was_reset, cur_meta, hist, fed, sum, cook >>

\* RibEye::initialize_processors (with_rib_meta is the same loop)
InitializeProcessors(rib_meta) ==
    /\ pc = "idle"
    /\ run < MaxRuns
    /\ processors' = [i \in 1..Len(processors) |->
                         ResetProcessor(processors[i], rib_meta)]
    /\ was_reset' = TRUE
    /\ cur_meta' = Some(rib_meta)
    /\ UNCHANGED << src, store, pc, ei, pi, run, result, log, store0, hist,
                    fed, sum, cook >>

\* mutant of RunNoProcessors: the file is opened before the check
RunNoProcessors_opens ==
    /\ pc = "idle"
    /\ run < MaxRuns
    /\ Len(processors) = 0
    /\ run' = run + 1
    /\ result' = "ok"
    /\ log' = << Call("open", 0, 0, "ok") >>
    /\ store0' = store
    /\ was_reset' = FALSE
    /\ hist' = Append(hist, [reset |-> was_reset, meta |-> cur_meta,
                             docs |-> << >>])
    /\ UNCHANGED << processors, src, store, pc, ei, pi, cur_meta, fed, sum,
                    cook >>

\* process_mrt_file, no processor registered: Ok, the file is not opened
RunNoProcessors ==
    /\ pc = "idle"
    /\ run < MaxRuns
    /\ Len(processors) = 0
    /\ run' = run + 1
    /\ result' = "ok"
    /\ log' = << >>
    /\ store0' = store
    /\ was_reset' = FALSE
    /\ hist' = Append(hist, [reset |-> was_reset, meta |-> cur_meta,
                             docs |-> << >>])
    /\ UNCHANGED << processors, src, store, pc, ei, pi, cur_meta, fed, sum,
                    cook >>

\* process_mrt_file, BgpkitParser::new(file_path)? returns Err
OpenFails ==
    /\ pc = "idle"
    /\ run < MaxRuns
    /\ Len(processors) > 0
    /\ run' = run + 1
    /\ pc' = "failed"
    /\ result' = "err"
    /\ log' = << Call("open", 0, 0, "err") >>
    /\ store0' = store
    /\ UNCHANGED << processors, src, store, ei, pi, was_reset, cur_meta, hist,
                    fed, sum, cook >>

\* process_mrt_file, the parser is created: the element loop starts, or the
\* output loop when the file yields no element
OpenOk ==
    /\ pc = "idle"
    /\ run < MaxRuns
    /\ Len(processors) > 0
    /\ run' = run + 1
    /\ pc' = IF Len(src) = 0 THEN "output" ELSE "processing"
    /\ ei' = IF Len(src) = 0 THEN 0 ELSE 1
    /\ pi' = 1
    /\ result' = "none"
    /\ log' = << Call("open", 0, 0, "ok") >>
    /\ store0' = store
    /\ UNCHANGED << processors, src, store, was_reset, cur_meta, hist, fed,
                    sum, cook >>

\* mutant of NextPos: the elements are the inner loop
NextPos_procMajor(e, p) ==
    IF e < Len(src) THEN << "processing", e + 1, p >>
    ELSE IF p < Len(processors) THEN << "processing", 1, p + 1 >>
    ELSE << "output", e, 1 >>

\* the position after processor pi has handled element ei: the processors
\* are the inner loop, the elements the outer one
NextPos(e, p) ==
    IF p < Len(processors) THEN << "processing", e, p + 1 >>
    ELSE IF e < Len(src) THEN << "processing", e + 1, 1 >>
    ELSE << "output", e, 1 >>

\* mutant of ProcessEntryOk: the element reaches every registered processor
\* at each call
ProcessEntryOk_shared ==
    /\ pc = "processing"
    /\ processors' = [i \in 1..Len(processors) |->
                         ProcessEntry(processors[i], src[ei])]
    /\ log' = Append(log, Call("process_entry", pi, ei, "ok"))
    /\ pc' = NextPos(ei, pi)[1]
    /\ ei' = NextPos(ei, pi)[2]
    /\ pi' = NextPos(ei, pi)[3]
    /\ UNCHANGED << src, store, run, result, store0, was_reset, cur_meta,
                    hist, fed, sum, cook >>

\* one processor.process_entry(&msg)? of the element loop returning Ok
ProcessEntryOk ==
    /\ pc = "processing"
    /\ processors' = [processors EXCEPT ![pi] = ProcessEntry(@, src[ei])]
    /\ log' = Append(log, Call("process_entry", pi, ei, "ok"))
    /\ pc' = NextPos(ei, pi)[1]
    /\ ei' = NextPos(ei, pi)[2]
    /\ pi' = NextPos(ei, pi)[3]
    /\ UNCHANGED << src, store, run, result, store0, was_reset, cur_meta,
                    hist, fed, sum, cook >>

\* mutant of ProcessEntryErr: the error is dropped and the loop goes on
ProcessEntryErr_swallow ==
    /\ pc = "processing"
    /\ processors[pi].kind \in UserKinds
    /\ log' = Append(log, Call("process_entry", pi, ei, "err"))
    /\ pc' = NextPos(ei, pi)[1]
    /\ ei' = NextPos(ei, pi)[2]
    /\ pi' = NextPos(ei, pi)[3]
    /\ UNCHANGED << processors, src, store, run, result, store0, was_reset,
                    cur_meta, hist, fed, sum, cook >>

\* one processor.process_entry(&msg)? returning Err: process_mrt_file
\* returns it. No built-in process_entry has an Err path.
ProcessEntryErr ==
    /\ pc = "processing"
    /\ processors[pi].kind \in UserKinds
    /\ log' = Append(log, Call("process_entry", pi, ei, "err"))
    /\ pc' = "failed"
    /\ result' = "err"
    /\ UNCHANGED << processors, src, store, ei, pi, run, store0, was_reset,
                    cur_meta, hist, fed, sum, cook >>

\* the store with path holding artifact a
Put(st, path, a) ==
    [x \in DOMAIN st \cup {path} |-> IF x = path THEN a ELSE st[x]]

\* mutant of OutputOutcomes: only the first target is written
OutputOutcomes_firstOnly(p, st) ==
    IF UnwrapsNone(p) THEN {[ret |-> "panic", store |-> st]}
    ELSE IF ~IsSome(OutputPaths(p)) THEN {[ret |-> "ok", store |-> st]}
    ELSE IF ~IsSome(ToResultString(p)) THEN {[ret |-> "ok", store |-> st]}
    ELSE {[ret |-> "ok",
           store |-> WriteAll(st, Unwrap(OutputPaths(p)), 1,
                              Unwrap(ToResultString(p)))],
          [ret |-> "err", store |-> st]}

\* MessageProcessor::output, the default body: what it returns and the store
\* it leaves. The writer of target j may fail when it is opened (target j
\* untouched) or while the string is written (target j cut short); the
\* targets before j are written by then.
OutputOutcomes(p, st) ==
    IF UnwrapsNone(p) THEN {[ret |-> "panic", store |-> st]}
    ELSE IF ~IsSome(OutputPaths(p)) THEN {[ret |-> "ok", store |-> st]}
    ELSE IF ~IsSome(ToResultString(p)) THEN {[ret |-> "ok", store |-> st]}
    ELSE LET output_paths == Unwrap(OutputPaths(p))
             output_string == Unwrap(ToResultString(p))
             n == Len(output_paths)
         IN  {[ret |-> "ok",
               store |-> WriteAll(st, output_paths, n, output_string)]}
             \cup
             {[ret |-> "err",
               store |-> WriteAll(st, output_paths, j - 1, output_string)] :
                 j \in 1..n}
             \cup
             {[ret |-> "err",
               store |-> Put(WriteAll(st, output_paths, j - 1, output_string),
                             output_paths[j], Partial(output_string))] :
                 j \in 1..n}

\* the documents of the processors at the end of a run
Docs == [i \in 1..Len(processors) |-> ToResultString(processors[i])]

\* one processor.output()? of the output loop returning Ok; after the last
\* one process_mrt_file returns Ok
OutputOk ==
    /\ pc = "output"
    /\ \E o \in OutputOutcomes(processors[pi], store) :
          /\ o.ret = "ok"
          /\ store' = o.store
    /\ log' = Append(log, Call("output", pi, 0, "ok"))
    /\ IF pi < Len(processors)
       THEN /\ pi' = pi + 1
            /\ UNCHANGED << pc, result, hist, was_reset >>
       ELSE /\ pc' = "idle"
            /\ result' = "ok"
            /\ hist' = Append(hist, [reset |-> was_reset, meta |-> cur_meta,
                                    docs |-> Docs])
            /\ was_reset' = FALSE
            /\ UNCHANGED pi
    /\ UNCHANGED << processors, src, ei, run, store0, cur_meta, fed, sum,
                    cook >>

\* mutant of OutputErr: the error is dropped and the loop goes on
OutputErr_continue ==
    /\ pc = "output"
    /\ \E o \in OutputOutcomes(processors[pi], store) :
          /\ o.ret = "err"
          /\ store' = o.store
    /\ log' = Append(log, Call("output", pi, 0, "err"))
    /\ IF pi < Len(processors)
       THEN /\ pi' = pi + 1
            /\ UNCHANGED << pc, result, hist, was_reset >>
       ELSE /\ pc' = "idle"
            /\ result' = "ok"
            /\ hist' = Append(hist, [reset |-> was_reset, meta |-> cur_meta,
                                    docs |-> Docs])
            /\ was_reset' = FALSE
            /\ UNCHANGED pi
    /\ UNCHANGED << processors, src, ei, run, store0, cur_meta, fed, sum,
                    cook >>

\* one processor.output()? returning Err: process_mrt_file returns it
OutputErr ==
    /\ pc = "output"
    /\ \E o \in OutputOutcomes(processors[pi], store) :
          /\ o.ret = "err"
          /\ store' = o.store
    /\ log' = Append(log, Call("output", pi, 0, "err"))
    /\ pc' = "failed"
    /\ result' = "err"
    /\ UNCHANGED << processors, src, ei, pi, run, store0, was_reset, cur_meta,
                    hist, fed, sum, cook >>

\* processor.output() of a built-in processor that was never reset:
\* rib_meta.as_ref().unwrap() panics
OutputPanics ==
    /\ pc = "output"
    /\ \E o \in OutputOutcomes(processors[pi], store) : o.ret = "panic"
    /\ log' = Append(log, Call("output", pi, 0, "panic"))
    /\ pc' = "panicked"
    /\ UNCHANGED << processors, src, store, ei, pi, run, result, store0,
                    was_reset, cur_meta, hist, fed, sum, cook >>

Next ==
    \/ \E kind \in Kinds : AddProcessor(kind)
    \/ \E rib_meta \in Metas : InitializeProcessors(rib_meta)
    \/ RunNoProcessors
    \/ OpenFails
    \/ OpenOk
    \/ ProcessEntryOk
    \/ ProcessEntryErr
    \/ OutputOk
    \/ OutputErr
    \/ OutputPanics

Spec == Init /\ [][Next]_vars

\* --------------------------------------------- one processor driven directly
\* The trait is public: a caller may hold one processor and call
\* reset_processor and process_entry on it itself. SpecProc drives one
\* built-in processor with elements that cover element kinds, peers,
\* networks and AS paths; fed records the elements passed so far.
PathAB == SeqPath(<< 65001, 65002 >>)
PathBA == SeqPath(<< 65002, 65001 >>)
PathPrepend == SeqPath(<< 65001, 65001, 65002 >>)
PathOne == SeqPath(<< 65002 >>)
PathEmpty == SeqPath(<< >>)
PathLong == SeqPath(<< 65001, 65003, 65002 >>)
PathTier1Chain == SeqPath(<< 7018, 701, 6939, 65001 >>)
PathTier1AtPeer == SeqPath(<< 701, 65002, 65001 >>)
PathTier1Mid == SeqPath(<< 65003, 701, 65002, 65001 >>)

ProcElems ==
    { Elem("ANNOUNCE", Peer1, 64500, Net4A, PathAB),
      Elem("ANNOUNCE", Peer2, 64501, Net4A, PathAB),
      Elem("ANNOUNCE", Peer1, 64500, Net4A, PathBA),
      Elem("ANNOUNCE", Peer1, 64500, Net4A, PathPrepend),
      Elem("ANNOUNCE", Peer1, 64500, Net4B, PathAB),
      Elem("ANNOUNCE", Peer1, 64500, Net4A, PathTier1Chain),
      Elem("ANNOUNCE", Peer1, 64500, Net4A, PathTier1AtPeer),
      Elem("ANNOUNCE", Peer1, 64500, Net4A, PathTier1Mid),
      Elem("ANNOUNCE", Peer1, 64500, Net4A, NoPath),
      Elem("ANNOUNCE", Peer1, 64500, Net4A, SetPath),
      Elem("ANNOUNCE", Peer1, 64500, Net4A, PathEmpty),
      Elem("ANNOUNCE", Peer1, 64500, Net4Default, PathAB),
      Elem("ANNOUNCE", Peer1, 64500, Net6Default, PathAB),
      Elem("ANNOUNCE", Peer1, 64500, Net6A, PathOne),
      Elem("ANNOUNCE", Peer1, 64999, Net4B, PathLong),
      Elem("WITHDRAW", Peer1, 64500, Net4A, PathAB),
      Elem("WITHDRAW", Peer2, 64501, Net4A, NoPath) }

\* the AS numbers and the peer addresses the elements carry
Asns == {65001, 65002, 65003, 701, 6939, 7018}

InitProc ==
    /\ \E kind \in BuiltinKinds : processors = << NewProcessor(kind) >>
    /\ src = << >>
    /\ store = EmptyMap
    /\ pc = "idle"
    /\ ei = 0
    /\ pi = 0
    /\ run = 0
    /\ result = "none"
    /\ log = << >>
    /\ store0 = EmptyMap
    /\ was_reset = FALSE
    /\ cur_meta = None
    /\ hist = << >>
    /\ fed = << >>
    /\ sum = NoSum
    /\ cook = NoCook

\* processor.process_entry(&elem) called on the processor held
DirectProcessEntry(elem) ==
    /\ Len(fed) < MaxFeed
    /\ processors' = [processors EXCEPT ![1] = ProcessEntry(@, elem)]
    /\ result' = ProcessEntryReturn(processors[1], elem)
    /\ fed' = Append(fed, elem)
    /\ UNCHANGED << src, store, pc, ei, pi, run, log, store0,
                    was_reset, cur_meta, hist, sum, cook >>

NextProc ==
    \/ \E rib_meta \in Metas : InitializeProcessors(rib_meta)
    \/ \E elem \in ProcElems : DirectProcessEntry(elem)

SpecProc == InitProc /\ [][NextProc]_vars

\* ------------------------------------------------ summarize_latest
\* snapshots passed to one summarize_latest call
MaxSnap == 2

\* oneio::read_json_struct::<XxxCollectorJson>(path): the document stored at
\* path; an Err (None here) when nothing is stored there or what is stored
\* was cut short
ReadJsonStruct(st, path) ==
    IF path \in DOMAIN st /\ st[path].complete THEN Some(st[path].doc)
    ELSE None

\* PeerStats, the body of `for entry in data.peers`
PeerStatsMergeEntry(m, entry) == Put(m, entry.ip, entry)

\* mutant of Pfx2asMergeEntry: the count of the last artifact is kept
Pfx2asMergeEntry_replace(m, entry) ==
    LET key == << entry.prefix, entry.asn >>
        m1 == OrInsert(m, key, 0)
    IN  [m1 EXCEPT ![key] = entry.count]

\* PrefixToOrigin, the body of `for entry in data.pfx2as`
Pfx2asMergeEntry(m, entry) ==
    LET key == << entry.prefix, entry.asn >>
        m1 == OrInsert(m, key, 0)
    IN  [m1 EXCEPT ![key] = @ + entry.count]

\* mutant of As2relMergeEntry: the observer count is the larger of the two
As2relMergeEntry_maxPeers(m, entry) ==
    LET key == << entry.asn1, entry.asn2, entry.rel >>
        m1 == OrInsert(m, key, [count |-> 0, peers |-> 0])
    IN  [m1 EXCEPT ![key] =
            [count |-> @.count + entry.paths_count,
             peers |-> IF entry.peers_count > @.peers
                       THEN entry.peers_count ELSE @.peers]]

\* AsRelationship, the body of `for entry in data.as2rel`
As2relMergeEntry(m, entry) ==
    LET key == << entry.asn1, entry.asn2, entry.rel >>
        m1 == OrInsert(m, key, [count |-> 0, peers |-> 0])
    IN  [m1 EXCEPT ![key] =
            [count |-> @.count + entry.paths_count,
             peers |-> @.peers + entry.peers_count]]

\* mutant of Pfx2distMergeEntry: the distance of the last artifact is kept
Pfx2distMergeEntry_last(m, entry) ==
    LET key == << entry.prefix, entry.collector_asn >>
        m1 == OrInsert(m, key, U32_MAX)
    IN  [m1 EXCEPT ![key] = entry.distance]

\* mutant of Pfx2distMergeEntry: the comparison is turned round, so the
\* seed is never replaced
Pfx2distMergeEntry_greater(m, entry) ==
    LET key == << entry.prefix, entry.collector_asn >>
        m1 == OrInsert(m, key, U32_MAX)
    IN  IF entry.distance > m1[key]
        THEN [m1 EXCEPT ![key] = entry.distance]
        ELSE m1

\* PrefixToDistance, the body of `for entry in data.pfx2dist`
Pfx2distMergeEntry(m, entry) ==
    LET key == << entry.prefix, entry.collector_asn >>
        m1 == OrInsert(m, key, U32_MAX)
    IN  IF entry.distance < m1[key]
        THEN [m1 EXCEPT ![key] = entry.distance]
        ELSE m1

MergeEntry(kind, m, entry) ==
    CASE kind = "peer-stats" -> PeerStatsMergeEntry(m, entry)
      [] kind = "pfx2as" -> Pfx2asMergeEntry(m, entry)
      [] kind = "as2rel" -> As2relMergeEntry(m, entry)
      [] kind = "pfx2dist" -> Pfx2distMergeEntry(m, entry)

\* the `for entry in data.xxx` loop over the entries of one artifact
RECURSIVE MergeEntries(_, _, _)
MergeEntries(kind, m, entries) ==
    IF entries = {} THEN m
    ELSE LET entry == CHOOSE x \in entries : TRUE
         IN  MergeEntries(kind, MergeEntry(kind, m, entry), entries \ {entry})

\* what the `for rib_meta in rib_metas` loop has done so far: whether it
\* returned the read error, the artifacts it read, its local map
LoopStart == [failed |-> FALSE, reads |-> << >>, map |-> EmptyMap]

\* mutant of SummarizeLoop: an unreadable artifact is skipped whatever
\* ignore_error says
RECURSIVE SummarizeLoop_skipAlways(_, _, _, _, _, _)
SummarizeLoop_skipAlways(kind, st, rib_metas, i, ignore_error, acc) ==
    IF i > Len(rib_metas) THEN acc
    ELSE LET latest_file_path ==
                 GetLatestOutputPath(rib_metas[i], ProcessorMeta(kind))
             data == ReadJsonStruct(st, latest_file_path)
             acc1 == [acc EXCEPT !.reads = Append(@, latest_file_path)]
         IN  IF ~IsSome(data)
             THEN SummarizeLoop_skipAlways(kind, st, rib_metas, i + 1,
                                           ignore_error, acc1)
             ELSE SummarizeLoop_skipAlways(
                      kind, st, rib_metas, i + 1, ignore_error,
                      [acc1 EXCEPT !.map =
                          MergeEntries(kind, @, Unwrap(data).entries)])

\* summarize_latest, the loop over rib_metas from snapshot i on
RECURSIVE SummarizeLoop(_, _, _, _, _, _)
SummarizeLoop(kind, st, rib_metas, i, ignore_error, acc) ==
    IF i > Len(rib_metas) THEN acc
    ELSE LET latest_file_path ==
                 GetLatestOutputPath(rib_metas[i], ProcessorMeta(kind))
             data == ReadJsonStruct(st, latest_file_path)
             acc1 == [acc EXCEPT !.reads = Append(@, latest_file_path)]
         IN  IF ~IsSome(data)
             THEN IF ignore_error
                  THEN SummarizeLoop(kind, st, rib_metas, i + 1, ignore_error,
                                     acc1)
                  ELSE [acc1 EXCEPT !.failed = TRUE]
             ELSE SummarizeLoop(
                      kind, st, rib_metas, i + 1, ignore_error,
                      [acc1 EXCEPT !.map =
                          MergeEntries(kind, @, Unwrap(data).entries)])

\* the merged array of the summary: PeerStats builds it from
\* self.peer_info_map, the other three from the local map of the loop
SummaryEntries(p, m) ==
    CASE p.kind = "peer-stats" ->
            {PeerInfoEntry(p.map[ip]) : ip \in DOMAIN p.map}
      [] p.kind = "pfx2as" ->
            {[prefix |-> k[1], asn |-> k[2], count |-> m[k]] : k \in DOMAIN m}
      [] p.kind = "as2rel" ->
            {[asn1 |-> k[1], asn2 |-> k[2], paths_count |-> m[k].count,
              peers_count |-> m[k].peers, rel |-> k[3]] : k \in DOMAIN m}
      [] p.kind = "pfx2dist" ->
            {[prefix |-> k[1], collector_asn |-> k[2], distance |-> m[k]] :
                k \in DOMAIN m}

\* XxxSummaryJson { rib_dump_urls, <merged array> }
SummaryJson(p, rib_metas, m) ==
    [rib_dump_urls |-> [i \in 1..Len(rib_metas) |-> rib_metas[i].rib_dump_url],
     entries |-> SummaryEntries(p, m)]

\* {output_dir}/{name}/latest.json.bz2, the one summary target of a processor
SummaryPath(processor_meta) ==
    << "summary", processor_meta.output_dir, processor_meta.name >>

\* write_output_file(output_file_dir, output_content, true), a local
\* directory: what it returns and the store it leaves; the writer may fail
\* when it is opened or while the content is written
WriteOutputFile(st, processor_meta, output_content) ==
    LET output_file_path == SummaryPath(processor_meta)
    IN  {[ret |-> "ok", store |-> Put(st, output_file_path, Whole(output_content))],
         [ret |-> "write failed", store |-> st],
         [ret |-> "write failed",
          store |-> Put(st, output_file_path, Partial(output_content))]}

\* the elements of the RIB dump a snapshot's rib_dump_url names
RibDump(rib_meta) ==
    IF rib_meta = Meta1
    THEN << Elem("ANNOUNCE", Peer1, 64500, Net4A, PathAB),
            Elem("ANNOUNCE", Peer2, 64501, Net4A, PathTier1Mid) >>
    ELSE << Elem("ANNOUNCE", Peer1, 64500, Net4A, PathLong),
            Elem("ANNOUNCE", Peer1, 64500, Net4A, PathLong),
            Elem("ANNOUNCE", Peer1, 64500, Net4B, PathAB) >>

\* the processor after process_entry on the first n elements of elems
RECURSIVE ProcessAll(_, _, _)
ProcessAll(p, elems, n) ==
    IF n = 0 THEN p
    ELSE ProcessEntry(ProcessAll(p, elems, n - 1), elems[n])

\* the snapshot lists passed to summarize_latest: up to MaxSnap snapshots,
\* each listed once, in any order
SnapshotLists ==
    {s \in SeqsUpTo(Metas, MaxSnap) :
        \A i \in 1..Len(s), j \in 1..Len(s) : i # j => s[i] # s[j]}

InitSum ==
    /\ \E kind \in BuiltinKinds : processors = << NewProcessor(kind) >>
    /\ src = << >>
    /\ store = EmptyMap
    /\ pc = "idle"
    /\ ei = 0
    /\ pi = 0
    /\ run = 0
    /\ result = "none"
    /\ log = << >>
    /\ store0 = EmptyMap
    /\ was_reset = FALSE
    /\ cur_meta = None
    /\ hist = << >>
    /\ fed = << >>
    /\ sum = NoSum
    /\ cook = NoCook

\* the cook command for one snapshot: a coordinator of its own with a new
\* processor, with_rib_meta, then process_mrt_file on the snapshot's dump;
\* the output of the processor may fail and leave an artifact cut short.
\* The snapshots are cooked before the summary is made.
Cook(rib_meta) ==
    /\ sum = NoSum
    /\ LET fresh == ResetProcessor(NewProcessor(processors[1].kind), rib_meta)
           elems == RibDump(rib_meta)
           p == ProcessAll(fresh, elems, Len(elems))
       IN  \E o \in OutputOutcomes(p, store) : store' = o.store
    /\ UNCHANGED << processors, src, pc, ei, pi, run, result, log, store0,
                    was_reset, cur_meta, hist, fed, sum, cook >>

\* mutant of SummarizeLatest: the loop starts from the entries of the summary
\* written before, not from an empty map
SummarizeLatest_accumulate(rib_metas, ignore_error) ==
    /\ LET p == processors[1]
           target == SummaryPath(ProcessorMeta(p.kind))
           prior == IF target \in DOMAIN store /\ store[target].complete
                    THEN MergeEntries(p.kind, EmptyMap,
                                      store[target].doc.entries)
                    ELSE EmptyMap
           loop == SummarizeLoop(p.kind, store, rib_metas, 1, ignore_error,
                                 [LoopStart EXCEPT !.map = prior])
           called == [rib_metas |-> rib_metas,
                      ignore_error |-> ignore_error, ret |-> "failed to read",
                      reads |-> loop.reads, merged |-> loop.map]
       IN  IF loop.failed
           THEN /\ sum' = called
                /\ store' = store
           ELSE \E o \in WriteOutputFile(store, ProcessorMeta(p.kind),
                                         SummaryJson(p, rib_metas, loop.map)) :
                   /\ sum' = [called EXCEPT !.ret = o.ret]
                   /\ store' = o.store
    /\ UNCHANGED << processors, src, pc, ei, pi, run, result, log, store0,
                    was_reset, cur_meta, hist, fed, cook >>

\* processors[1].summarize_latest(rib_metas, ignore_error)
SummarizeLatest(rib_metas, ignore_error) ==
    /\ LET p == processors[1]
           loop == SummarizeLoop(p.kind, store, rib_metas, 1, ignore_error,
                                 LoopStart)
           called == [rib_metas |-> rib_metas,
                      ignore_error |-> ignore_error, ret |-> "failed to read",
                      reads |-> loop.reads, merged |-> loop.map]
       IN  IF loop.failed
           THEN /\ sum' = called
                /\ store' = store
           ELSE \E o \in WriteOutputFile(store, ProcessorMeta(p.kind),
                                         SummaryJson(p, rib_metas, loop.map)) :
                   /\ sum' = [called EXCEPT !.ret = o.ret]
                   /\ store' = o.store
    /\ UNCHANGED << processors, src, pc, ei, pi, run, result, log, store0,
                    was_reset, cur_meta, hist, fed, cook >>

NextSum ==
    \/ \E rib_meta \in Metas : Cook(rib_meta)
    \/ \E rib_metas \in SnapshotLists, ignore_error \in BOOLEAN :
          SummarizeLatest(rib_metas, ignore_error)

SpecSum == InitSum /\ [][NextSum]_vars

\* ------------------------------------------------------- the cook command
\* SpecCook is the cook command as a whole: one coordinator per snapshot of
\* the list, run in parallel (par_iter().for_each), each with processors of
\* its own and the store as the only thing shared; then, on the calling
\* thread, one more coordinator that summarizes. A file of the store is
\* written in place through a writer of its own offset, so the steps of a
\* write are its opening, which empties the file, and one step per block.

\* write calls one document takes
MaxBlocks == 2

\* a second dump of rrc00 on the day of Meta1
Meta3 ==
    [project |-> "riperis", collector |-> "rrc00",
     rib_dump_url |-> "url-rrc00-0800",
     timestamp |-> [year |-> 2023, month |-> 8, day |-> 6,
                    secs |-> 1691308800]]

CookMetas == {Meta1, Meta2, Meta3}

\* the snapshot lists the broker query yields: each snapshot once
CookLists ==
    {s \in SeqsUpTo(CookMetas, MaxSnap) :
        /\ Len(s) > 0
        /\ \A i \in 1..Len(s), j \in 1..Len(s) : i # j => s[i] # s[j]}

\* the processor names given on the command line
CookNames == {<< "pfx2as" >>, << "as2rel", "pfx2as" >>}

\* RibEye::new().with_processor_names(names, dir): the default processors
\* for an empty list, else one new processor per name, in order
WithProcessorNames(names) ==
    IF names = << >>
    THEN << NewProcessor("peer-stats"), NewProcessor("pfx2as"),
            NewProcessor("as2rel") >>
    ELSE [i \in 1..Len(names) |-> NewProcessor(names[i])]

\* where a per-snapshot coordinator stands: start, output (writing block
\* `block` of target `target` of processor `pi`; block 0: the writer is
\* not open yet), done; its processors, and per processor the archival
\* location get_output_path has formatted
InstStart ==
    [pc |-> "start", pi |-> 0, target |-> 0, block |-> 0, procs |-> << >>,
     archive |-> << >>]

\* processor j of the coordinator of snapshot i when its element loop is
\* over: new, reset to the snapshot, fed the elements of the dump
InstProcessor(i, j) ==
    LET rib_meta == cook.rib_metas[i]
        fresh == ResetProcessor(NewProcessor(processors[j].kind), rib_meta)
    IN  ProcessAll(fresh, RibDump(rib_meta), Len(RibDump(rib_meta)))

\* the targets processor j of the coordinator of snapshot i derives
InstPaths0(i, j) == Unwrap(OutputPaths(InstProcessor(i, j)))

\* the document and the targets of processor j of that coordinator
InstDoc(i, j) == Unwrap(ToResultString(cook.inst[i].procs[j]))
InstPaths(i, j) == Unwrap(OutputPaths(cook.inst[i].procs[j]))

\* block k of document doc, and the gap a write past the end leaves
Block(doc, k) == [k |-> k, doc |-> doc]
Hole == [k |-> 0, doc |-> << >>]

\* oneio::get_writer(path) on a local path: the file is created or emptied
Truncate(files, path) == Put(files, path, << >>)

\* the k-th write of a writer: block b lands at the writer's own offset,
\* whatever the file holds there by now
WriteAt(files, path, k, b) ==
    LET old == files[path]
        n == IF Len(old) > k THEN Len(old) ELSE k
    IN  Put(files, path,
            [x \in 1..n |-> IF x = k THEN b
                            ELSE IF x <= Len(old) THEN old[x] ELSE Hole])

\* what a reader finds in a file of the given blocks: the document when the
\* blocks are the blocks of one document, in order and all there, else
\* something cut short or mixed that does not parse
Artifact(blocks) ==
    IF /\ Len(blocks) = MaxBlocks
       /\ \A x \in 1..MaxBlocks : blocks[x] = Block(blocks[1].doc, x)
    THEN Whole(blocks[1].doc)
    ELSE Partial(blocks)

\* the cook command has the snapshot list and the processor names; no
\* coordinator has started
InitCook ==
    /\ \E names \in CookNames : processors = WithProcessorNames(names)
    /\ \E rib_metas \in CookLists :
          cook = [rib_metas |-> rib_metas,
                  inst |-> [i \in 1..Len(rib_metas) |-> InstStart],
                  files |-> EmptyMap]
    /\ src = << >>
    /\ store = EmptyMap
    /\ pc = "cooking"
    /\ ei = 0
    /\ pi = 0
    /\ run = 0
    /\ result = "none"
    /\ log = << >>
    /\ store0 = EmptyMap
    /\ was_reset = FALSE
    /\ cur_meta = None
    /\ hist = << >>
    /\ fed = << >>
    /\ sum = NoSum

\* the coordinator of snapshot i: with_rib_meta, then process_mrt_file opens
\* the dump and runs the element loop on its own processors
CookStart(i) ==
    /\ pc = "cooking"
    /\ cook.inst[i].pc = "start"
    /\ cook' = [cook EXCEPT !.inst[i] =
                   [pc |-> "output", pi |-> 1, target |-> 1, block |-> 0,
                    procs |-> [j \in 1..Len(processors) |->
                                  InstProcessor(i, j)],
                    archive |-> [j \in 1..Len(processors) |->
                                    FormatOutputPath(
                                        InstPaths0(i, j)[1])]]]
    /\ UNCHANGED << processors, src, store, pc, ei, pi, run, result, log,
                    store0, was_reset, cur_meta, hist, fed, sum >>

\* BgpkitParser::new fails: process_mrt_file returns Err and unwrap()
\* panics; the panic is carried to the thread that called for_each, the
\* command ends with its coordinators and nothing is summarized. What the
\* other coordinators still do until then is not followed.
CookStartFails(i) ==
    /\ pc = "cooking"
    /\ cook.inst[i].pc = "start"
    /\ pc' = "panicked"
    /\ cook' = [cook EXCEPT !.inst = << >>]
    /\ UNCHANGED << processors, src, store, ei, pi, run, result, log, store0,
                    was_reset, cur_meta, hist, fed, sum >>

\* output() of processor pi: oneio::get_writer(output_path)? returns the
\* writer, the target is empty from now on
CookOpenWriter(i) ==
    /\ pc = "cooking"
    /\ cook.inst[i].pc = "output"
    /\ cook.inst[i].block = 0
    /\ LET at == cook.inst[i]
           path == InstPaths(i, at.pi)[at.target]
           files == Truncate(cook.files, path)
       IN  /\ cook' = [cook EXCEPT !.inst[i].block = 1, !.files = files]
           /\ store' = Put(store, path, Artifact(files[path]))
    /\ UNCHANGED << processors, src, pc, ei, pi, run, result, log, store0,
                    was_reset, cur_meta, hist, fed, sum >>

\* the position after the last block of a target: the next target of the
\* processor, the first target of the next processor, or done
AfterTarget(i) ==
    LET at == cook.inst[i]
    IN  IF at.target < Len(InstPaths(i, at.pi))
        THEN [at EXCEPT !.target = @ + 1, !.block = 0]
        ELSE IF at.pi < Len(processors)
        THEN [at EXCEPT !.pi = @ + 1, !.target = 1, !.block = 0]
        ELSE [at EXCEPT !.pc = "done", !.pi = 0, !.target = 0, !.block = 0]

\* writer.write_all(output_string): one write call of it; after the last
\* the writer is dropped
CookWrite(i) ==
    /\ pc = "cooking"
    /\ cook.inst[i].pc = "output"
    /\ cook.inst[i].block > 0
    /\ LET at == cook.inst[i]
           path == InstPaths(i, at.pi)[at.target]
           files == WriteAt(cook.files, path, at.block,
                            Block(InstDoc(i, at.pi), at.block))
       IN  /\ cook' = [cook EXCEPT
                          !.inst[i] = IF at.block < MaxBlocks
                                      THEN [at EXCEPT !.block = @ + 1]
                                      ELSE AfterTarget(i),
                          !.files = files]
           /\ store' = Put(store, path, Artifact(files[path]))
    /\ UNCHANGED << processors, src, pc, ei, pi, run, result, log, store0,
                    was_reset, cur_meta, hist, fed, sum >>

\* get_writer(..)? or write_all(..)? returns Err: output() and then
\* process_mrt_file return it, unwrap() panics and the command ends; the
\* target stays as it is
CookWriteFails(i) ==
    /\ pc = "cooking"
    /\ cook.inst[i].pc = "output"
    /\ pc' = "panicked"
    /\ cook' = [cook EXCEPT !.inst = << >>]
    /\ UNCHANGED << processors, src, store, ei, pi, run, result, log, store0,
                    was_reset, cur_meta, hist, fed, sum >>

\* mutant of Joined: one finished coordinator is enough
Joined_any ==
    \E i \in DOMAIN cook.inst : cook.inst[i].pc = "done"

\* par_iter().for_each(..) returns: the closure has returned for every
\* snapshot of the list
Joined ==
    \A i \in DOMAIN cook.rib_metas :
        i \in DOMAIN cook.inst /\ cook.inst[i].pc = "done"

\* for_each has returned: the command goes on to build the coordinator that
\* summarizes and calls summarize_latest_files(&rib_metas)
CookJoin ==
    /\ pc = "cooking"
    /\ Joined
    /\ pc' = "summarizing"
    /\ pi' = 1
    /\ UNCHANGED << processors, src, store, ei, run, result, log, store0,
                    was_reset, cur_meta, hist, fed, sum, cook >>

\* mutant of AfterSummarize: an Err of summarize_latest is returned with `?`
AfterSummarize_propagate(ret, k) ==
    IF ret # "ok" THEN << "failed", k >>
    ELSE IF k < Len(processors) THEN << "summarizing", k + 1 >>
    ELSE << "done", k >>

\* summarize_latest_files after processor k returned ret: an Err is logged
\* and dropped, the loop goes on; after the last processor it returns Ok
AfterSummarize(ret, k) ==
    IF k < Len(processors) THEN << "summarizing", k + 1 >>
    ELSE << "done", k >>

\* summarize_latest_files, one turn of its loop:
\* processors[pi].summarize_latest(rib_metas, true)
SummarizeNext ==
    /\ pc = "summarizing"
    /\ LET p == processors[pi]
           loop == SummarizeLoop(p.kind, store, cook.rib_metas, 1, TRUE,
                                 LoopStart)
       IN  \E o \in WriteOutputFile(store, ProcessorMeta(p.kind),
                                    SummaryJson(p, cook.rib_metas, loop.map)) :
              /\ sum' = [rib_metas |-> cook.rib_metas, ignore_error |-> TRUE,
                         ret |-> o.ret, reads |-> loop.reads,
                         merged |-> loop.map]
              /\ store' = o.store
              /\ log' = Append(log, Call("summarize_latest", pi, 0, o.ret))
              /\ pc' = AfterSummarize(o.ret, pi)[1]
              /\ pi' = AfterSummarize(o.ret, pi)[2]
    /\ UNCHANGED << processors, src, ei, run, result, store0, was_reset,
                    cur_meta, hist, fed, cook >>

NextCook ==
    \/ \E i \in 1..Len(cook.inst) : CookStart(i)
    \/ \E i \in 1..Len(cook.inst) : CookStartFails(i)
    \/ \E i \in 1..Len(cook.inst) : CookOpenWriter(i)
    \/ \E i \in 1..Len(cook.inst) : CookWrite(i)
    \/ \E i \in 1..Len(cook.inst) : CookWriteFails(i)
    \/ CookJoin
    \/ SummarizeNext

SpecCook == InitCook /\ [][NextCook]_vars

\* ------------------------------------------------------------------ claims
\* the run in progress or the last run, as long as no reset came after it
InRun == run > 0 /\ ~(pc = "idle" /\ was_reset)

\* the last call of process_mrt_file returned Ok after both of its loops
RunReturnedOk ==
    pc = "idle" /\ run > 0 /\ result = "ok" /\ Len(processors) > 0

ProcessEntryCalls == SelectSeq(log, LAMBDA c : c.op = "process_entry")
OutputCalls == SelectSeq(log, LAMBDA c : c.op = "output")

\* C1: after reset_processor(meta), following any process_entry calls, the
\* aggregation map of every built-in processor is empty and its stored
\* metadata is meta.
C1_ResetDiscardsState ==
    (pc = "idle" /\ was_reset) =>
        \A i \in 1..Len(processors) :
            processors[i].kind \in BuiltinKinds =>
                /\ DOMAIN processors[i].map = {}
                /\ processors[i].rib_meta = cur_meta

\* C2: two runs over the same elements with the same processor instances and
\* a reset between them give, for every processor, documents with the same
\* set of entries.
C2_RerunSameEntries ==
    \A r \in 2..Len(hist) :
        hist[r].reset =>
            \A i \in 1..Len(hist[r].docs) :
                IsSome(hist[r].docs[i]) =>
                    Unwrap(hist[r].docs[i]).entries
                        = Unwrap(hist[r - 1].docs[i]).entries

\* C3: a processor whose "latest" target exists when the run starts gets no
\* process_entry call in that run and its artifact is left as it was.
C3_SkipWhenLatestExists ==
    InRun =>
        \A i \in 1..Len(processors) :
            LET p == processors[i]
                latest == GetLatestOutputPath(Unwrap(p.rib_meta),
                                              ProcessorMeta(p.kind))
            IN  (/\ p.kind \in BuiltinKinds
                 /\ IsSome(p.rib_meta)
                 /\ latest \in DOMAIN store0) =>
                    /\ \A k \in 1..Len(log) :
                          ~(log[k].op = "process_entry" /\ log[k].proc = i)
                    /\ latest \in DOMAIN store
                    /\ store[latest] = store0[latest]

\* the process_entry calls of a whole run: element by element, and for each
\* element processor by processor
ExpectedCalls ==
    [k \in 1..(Len(src) * Len(processors)) |->
        Call("process_entry",
             ((k - 1) % Len(processors)) + 1,
             ((k - 1) \div Len(processors)) + 1,
             "ok")]

\* C4: in a run without failure every processor receives every element once,
\* in source order, the processors in registration order for each element,
\* element k by all processors before element k+1 by any.
C4_FanOutOrder ==
    (run > 0 /\ Len(processors) > 0) =>
        LET made == ProcessEntryCalls
            expected == ExpectedCalls
        IN  /\ \A k \in 1..Len(made) :
                  made[k].ret = "ok" =>
                      /\ k <= Len(expected)
                      /\ made[k] = expected[k]
            /\ (pc = "output" \/ RunReturnedOk) => made = expected

C4_Witness ==
    /\ RunReturnedOk
    /\ Len(processors) = 2
    /\ Len(src) = 2
    /\ Len(ProcessEntryCalls) = 4

\* C5: when the opening of the source or a process_entry fails, that call is
\* the last the run makes: no later process_entry, no output, and the run
\* returns the error.
C5_FailureStopsRun ==
    \A k \in 1..Len(log) :
        (log[k].op \in {"open", "process_entry"} /\ log[k].ret = "err") =>
            /\ k = Len(log)
            /\ pc = "failed"
            /\ result = "err"
            /\ OutputCalls = << >>

C5_Witness ==
    /\ pc = "failed"
    /\ Len(processors) = 2
    /\ Len(log) = 2
    /\ log[2] = Call("process_entry", 1, 1, "err")

\* C6: no output() before every processor has handled the last element;
\* then output() once per processor in registration order; a failing
\* output() is the last call and the run returns the failure.
C6_OutputAfterElements ==
    LET outputs == OutputCalls
    IN  /\ outputs # << >> => ProcessEntryCalls = ExpectedCalls
        /\ \A k \in 1..Len(log) :
              log[k].op = "output" =>
                  /\ \A j \in (k + 1)..Len(log) : log[j].op = "output"
                  /\ log[k].ret = "err" =>
                        (k = Len(log) /\ pc = "failed" /\ result = "err")
        /\ \A k \in 1..Len(outputs) : outputs[k].proc = k
        /\ RunReturnedOk =>
              (/\ Len(outputs) = Len(processors)
               /\ \A k \in 1..Len(outputs) : outputs[k].ret = "ok")

C6_Witness ==
    /\ pc = "failed"
    /\ Len(processors) = 2
    /\ Len(src) = 2
    /\ Len(OutputCalls) = 1
    /\ OutputCalls[1].ret = "err"

\* C7: process_mrt_file with no processor registered returns Ok without
\* opening the source and without a process_entry or output call.
C7_NoProcessorsNoOpen ==
    (run > 0 /\ Len(processors) = 0) =>
        /\ result = "ok"
        /\ pc = "idle"
        /\ log = << >>
        /\ store = store0

C7_Witness == run > 0 /\ Len(processors) = 0 /\ Len(src) > 0

\* C8: output() writes nothing without targets, nothing without a document,
\* and else the one document to every target: after an Ok all targets hold
\* the same content.
C8_DefaultOutput ==
    [][(pc = "output" /\ log' # log /\ ~UnwrapsNone(processors[pi])) =>
          LET p == processors[pi]
              ret == log'[Len(log')].ret
          IN  IF ~IsSome(OutputPaths(p)) \/ ~IsSome(ToResultString(p))
              THEN ret = "ok" /\ store' = store
              ELSE ret = "ok" =>
                      LET targets == {Unwrap(OutputPaths(p))[j] :
                                         j \in 1..Len(Unwrap(OutputPaths(p)))}
                      IN  /\ Cardinality(targets) = 2
                          /\ DOMAIN store' = DOMAIN store \cup targets
                          /\ \A t \in targets :
                                store'[t] = Whole(Unwrap(ToResultString(p)))
                          /\ \A t \in DOMAIN store \ targets :
                                store'[t] = store[t]]_vars

C8_Witness ==
    /\ RunReturnedOk
    /\ ~was_reset
    /\ Len(processors) = 2
    /\ processors[1].kind = FileCounter
    /\ processors[2].kind = "as2rel"
    /\ FileCounterPath \notin DOMAIN store
    /\ LET paths == Unwrap(OutputPaths(processors[2]))
       IN  /\ paths[1] # paths[2]
           /\ store[paths[1]] = store[paths[2]]
           /\ store[paths[1]].complete
           /\ store[paths[1]].doc.entries # {}

\* element e counts for PrefixToOrigin key (net, asn)
Pfx2asQualifying(e, net, asn) ==
    /\ e.elem_type = "ANNOUNCE"
    /\ e.prefix = net
    /\ net.len > 0
    /\ e.as_path.present
    /\ e.as_path.simple
    /\ Len(e.as_path.asns) > 0
    /\ Last(e.as_path.asns) = asn

\* C9: on a freshly constructed PrefixToOrigin processor the count of key
\* (P, A) is the number of ANNOUNCE elements processed with network P of
\* length > 0 and a usable path whose last AS number is A; a key is present
\* only if that number is at least 1.
C9_Pfx2asCounts ==
    processors[1].kind = "pfx2as" =>
        LET m == processors[1].map
        IN  /\ DOMAIN m \subseteq
                  {<< PrefixToString(net), asn >> : net \in Nets, asn \in Asns}
            /\ \A net \in Nets, asn \in Asns :
                  LET n == Cardinality({i \in 1..Len(fed) :
                                          Pfx2asQualifying(fed[i], net, asn)})
                      key == << PrefixToString(net), asn >>
                  IN  IF n = 0 THEN key \notin DOMAIN m
                      ELSE key \in DOMAIN m /\ m[key] = n

C9_Witness ==
    /\ processors[1].kind = "pfx2as"
    /\ Len(fed) = 3
    /\ \E i \in 1..3 : fed[i].prefix.len = 0 \/ fed[i].elem_type = "WITHDRAW"
    /\ \E k \in DOMAIN processors[1].map : processors[1].map[k] = 2

\* element e is one AsRelationship evaluates: ANNOUNCE, not a default route,
\* with a usable path
As2relQualifying(e) ==
    /\ e.elem_type = "ANNOUNCE"
    /\ e.prefix.len > 0
    /\ e.as_path.present
    /\ e.as_path.simple

\* the path AsRelationship walks: what to_u32_vec_opt(true) returns, in
\* received order
U32Path(e) == Unwrap(To_u32_vec_opt(e.as_path, TRUE))

\* how often b follows a in path
PairCount(path, a, b) ==
    Cardinality({i \in 1..(Len(path) - 1) : path[i] = a /\ path[i + 1] = b})

ContainsTier1(path) == \E i \in 1..Len(path) : path[i] \in TIER1

\* how often, among the adjacent pairs of rev whose hops both lie before
\* index t (from 0), the hop nearer the origin is b and the next one is a
UpstreamCount(rev, t, a, b) ==
    Cardinality({i \in 0..(Len(rev) - 2) :
                    i + 1 < t /\ rev[i + 2] = a /\ rev[i + 1] = b})

\* C11: for a qualifying message whose path holds a Tier-1 AS, with r the
\* reversed path and t the first index of r holding a Tier-1 AS, the code-1
\* entries incremented are exactly (r[i+1], r[i], 1) for the pairs with
\* i+1 < t, once each, wherever t lies; the code-0 entries change as the
\* adjacent pairs of the path alone make them change.
C11_UpstreamStrictlyBeforeTier1 ==
    [][(processors[1].kind = "as2rel" /\ fed' # fed) =>
          LET e == fed'[Len(fed')]
              path == U32Path(e)
              rev == Reverse(path)
              t == FirstTier1(rev)
              m == processors[1].map
              m2 == processors'[1].map
              void == [count |-> 0, peers |-> {}]
          IN  (As2relQualifying(e) /\ ContainsTier1(path)) =>
              /\ DOMAIN m \subseteq DOMAIN m2
              /\ \A a \in Asns, b \in Asns, code \in {0, 1} :
                    LET key == << a, b, code >>
                        n == IF code = 1 THEN UpstreamCount(rev, t, a, b)
                             ELSE PairCount(path, a, b)
                        old == IF key \in DOMAIN m THEN m[key] ELSE void
                    IN  IF n = 0
                        THEN /\ key \in DOMAIN m2 <=> key \in DOMAIN m
                             /\ key \in DOMAIN m => m2[key] = m[key]
                        ELSE /\ key \in DOMAIN m2
                             /\ m2[key].count = old.count + n
                             /\ m2[key].peers = old.peers \cup {e.peer_ip}]_vars

\* C12: one qualifying message with path, from the origin, 65001, 6939, 701,
\* 7018 on a fresh AsRelationship processor leaves exactly three code-0
\* entries, one per adjacent pair of the received path, and no code-1 entry.
C12_Tier1ChainNoCode1 ==
    (/\ processors[1].kind = "as2rel"
     /\ Len(fed) = 1
     /\ As2relQualifying(fed[1])
     /\ Reverse(U32Path(fed[1])) = << 65001, 6939, 701, 7018 >>) =>
        LET m == processors[1].map
        IN  /\ {k \in DOMAIN m : k[3] = 0}
                  = {<< 7018, 701, 0 >>, << 701, 6939, 0 >>, << 6939, 65001, 0 >>}
            /\ \A k \in DOMAIN m : k[3] = 0 => m[k].count = 1
            /\ {k \in DOMAIN m : k[3] = 1} = {}

\* the record a peer has before its first element
NoPeerInfo(e) == PeerInfoNew(e.peer_ip, e.peer_asn, None)

\* C13: an ANNOUNCE whose prefix has length zero sets the peer's
\* default-route flag of the prefix's address family and adds the prefix to
\* that family's network set, so the network count of the output includes
\* the default route; the flag of the other family is left as it was.
C13_DefaultRouteCounted ==
    [][(processors[1].kind = "peer-stats" /\ fed' # fed) =>
          LET e == fed'[Len(fed')]
              m == processors[1].map
              m2 == processors'[1].map
              old == IF e.peer_ip \in DOMAIN m THEN m[e.peer_ip]
                     ELSE NoPeerInfo(e)
          IN  (e.elem_type = "ANNOUNCE" /\ e.prefix.len = 0) =>
              /\ e.peer_ip \in DOMAIN m2
              /\ LET new == m2[e.peer_ip]
                     out == PeerInfoEntry(new)
                 IN  IF e.prefix.fam = 4
                     THEN /\ new.ipv4_default /\ out.has_v4_default
                          /\ new.ipv4_pfxs = old.ipv4_pfxs \cup {e.prefix}
                          /\ out.num_v4_pfxs = Cardinality(new.ipv4_pfxs)
                          /\ new.ipv6_default = old.ipv6_default
                          /\ new.ipv6_pfxs = old.ipv6_pfxs
                     ELSE /\ new.ipv6_default /\ out.has_v6_default
                          /\ new.ipv6_pfxs = old.ipv6_pfxs \cup {e.prefix}
                          /\ out.num_v6_pfxs = Cardinality(new.ipv6_pfxs)
                          /\ new.ipv4_default = old.ipv4_default
                          /\ new.ipv4_pfxs = old.ipv4_pfxs]_vars

C13_Witness ==
    /\ processors[1].kind = "peer-stats"
    /\ Len(fed) = 2
    /\ fed[1] = Elem("ANNOUNCE", Peer1, 64500, Net4Default, PathAB)
    /\ fed[2] = Elem("ANNOUNCE", Peer1, 64500, Net4A, PathAB)
    /\ LET out == PeerInfoEntry(processors[1].map[Peer1])
       IN  /\ out.has_v4_default
           /\ out.num_v4_pfxs = 2
           /\ ~out.has_v6_default
           /\ out.num_v6_pfxs = 0

\* C14: every element, announce or withdraw, creates the record of its peer
\* IP if absent, with the AS number of that first element; no later element
\* changes the AS number; a WITHDRAW changes nothing else, so a peer seen
\* only in withdraws is in the output with zero counts and both flags false.
C14_PeerRecordCreation ==
    [][(processors[1].kind = "peer-stats" /\ fed' # fed) =>
          LET e == fed'[Len(fed')]
              m == processors[1].map
              m2 == processors'[1].map
          IN  /\ DOMAIN m2 = DOMAIN m \cup {e.peer_ip}
              /\ \A ip \in DOMAIN m : ip # e.peer_ip => m2[ip] = m[ip]
              /\ IF e.peer_ip \in DOMAIN m
                 THEN /\ m2[e.peer_ip].asn = m[e.peer_ip].asn
                      /\ e.elem_type # "ANNOUNCE" => m2[e.peer_ip] = m[e.peer_ip]
                 ELSE /\ m2[e.peer_ip].asn = e.peer_asn
                      /\ e.elem_type # "ANNOUNCE" =>
                            LET out == PeerInfoEntry(m2[e.peer_ip])
                            IN  /\ out.ip = e.peer_ip
                                /\ out.num_v4_pfxs = 0
                                /\ out.num_v6_pfxs = 0
                                /\ out.num_connected_asns = 0
                                /\ ~out.has_v4_default
                                /\ ~out.has_v6_default]_vars

C14_Witness ==
    /\ processors[1].kind = "peer-stats"
    /\ Len(fed) = 3
    /\ fed[1] = Elem("WITHDRAW", Peer2, 64501, Net4A, NoPath)
    /\ fed[2] = Elem("ANNOUNCE", Peer1, 64500, Net4A, PathAB)
    /\ fed[3] = Elem("ANNOUNCE", Peer1, 64999, Net4B, PathLong)
    /\ DOMAIN processors[1].map = {Peer1, Peer2}
    /\ processors[1].map[Peer1].asn = 64500
    /\ PeerInfoEntry(processors[1].map[Peer1]).num_v4_pfxs = 2
    /\ PeerInfoEntry(processors[1].map[Peer2]).num_v4_pfxs = 0
    /\ PeerInfoEntry(processors[1].map[Peer2]).num_connected_asns = 0

\* element e counts for PrefixToDistance key (net, asn): an ANNOUNCE of net,
\* not a default route, with a usable path whose head is asn
Pfx2distQualifying(e, net, asn) ==
    /\ e.elem_type = "ANNOUNCE"
    /\ e.prefix = net
    /\ net.len > 0
    /\ e.as_path.present
    /\ e.as_path.simple
    /\ Len(U32Path(e)) > 0
    /\ Head(U32Path(e)) = asn

\* the least member of a nonempty set of numbers
Min(S) == CHOOSE x \in S : \A y \in S : x <= y

SumKind == processors[1].kind
SumTarget == SummaryPath(ProcessorMeta(SumKind))

\* snapshot meta has a readable "latest" artifact in st
Readable(st, meta) ==
    LET path == GetLatestOutputPath(meta, ProcessorMeta(SumKind))
    IN  path \in DOMAIN st /\ st[path].complete

\* per snapshot of rib_metas, in order: the entries of its artifact, none
\* when the artifact is unreadable
ArtifactEntries(st, rib_metas) ==
    [i \in 1..Len(rib_metas) |->
        IF Readable(st, rib_metas[i])
        THEN st[GetLatestOutputPath(rib_metas[i],
                                    ProcessorMeta(SumKind))].doc.entries
        ELSE {}]

RECURSIVE SumSeq(_)
SumSeq(s) == IF s = << >> THEN 0 ELSE Head(s) + SumSeq(Tail(s))

\* the entries of arts[i] with key k under the key function Key(_)
WithKey(arts, i, Key(_), k) == {x \in arts[i] : Key(x) = k}

\* the keys of all entries of arts
AllKeys(arts, Key(_)) ==
    UNION {{Key(x) : x \in arts[i]} : i \in 1..Len(arts)}

\* last-snapshot-wins: per peer IP the record of the last artifact holding it
ExpectedPeerStats(arts) ==
    LET Key(x) == x.ip
    IN  [k \in AllKeys(arts, Key) |->
            LET last == CHOOSE i \in 1..Len(arts) :
                            /\ WithKey(arts, i, Key, k) # {}
                            /\ \A j \in (i + 1)..Len(arts) :
                                  WithKey(arts, j, Key, k) = {}
            IN  CHOOSE x \in WithKey(arts, last, Key, k) : TRUE]

\* per key (prefix, AS) the sum of the counts
ExpectedPfx2as(arts) ==
    LET Key(x) == << x.prefix, x.asn >>
    IN  [k \in AllKeys(arts, Key) |->
            SumSeq([i \in 1..Len(arts) |->
                       IF WithKey(arts, i, Key, k) = {} THEN 0
                       ELSE (CHOOSE x \in WithKey(arts, i, Key, k) : TRUE).count])]

\* per key (asn1, asn2, rel) the sum of the occurrence counts and the sum
\* of the observer counts
ExpectedAs2rel(arts) ==
    LET Key(x) == << x.asn1, x.asn2, x.rel >>
        One(i, k) == CHOOSE x \in WithKey(arts, i, Key, k) : TRUE
    IN  [k \in AllKeys(arts, Key) |->
            [count |-> SumSeq([i \in 1..Len(arts) |->
                                  IF WithKey(arts, i, Key, k) = {} THEN 0
                                  ELSE One(i, k).paths_count]),
             peers |-> SumSeq([i \in 1..Len(arts) |->
                                  IF WithKey(arts, i, Key, k) = {} THEN 0
                                  ELSE One(i, k).peers_count])]]

\* per key (network, reference AS) the least distance
ExpectedPfx2dist(arts) ==
    LET Key(x) == << x.prefix, x.collector_asn >>
    IN  [k \in AllKeys(arts, Key) |->
            Min({x.distance :
                    x \in UNION {WithKey(arts, i, Key, k) : i \in 1..Len(arts)}})]

\* the last summarize_latest call returned Ok: the summary was written whole
Summarized(kind) ==
    /\ SumKind = kind
    /\ sum.ret = "ok"

\* C16: the PeerStats summary holds, for every peer IP of a readable
\* snapshot artifact, the record of the last snapshot in the given order
\* whose artifact has that IP, and no other peer.
C16_LastSnapshotWins ==
    Summarized("peer-stats") =>
        LET expected == ExpectedPeerStats(ArtifactEntries(store, sum.rib_metas))
        IN  /\ SumTarget \in DOMAIN store
            /\ store[SumTarget].complete
            /\ store[SumTarget].doc.entries
                   = {expected[ip] : ip \in DOMAIN expected}

\* C17: the PrefixToOrigin summary holds for every key (prefix, AS) the sum
\* of the key's counts over the readable snapshot artifacts; with no
\* readable artifact and ignore_error set the call does not fail on the
\* reads and the summary it writes has an empty merged array.
C17_Pfx2asSum ==
    /\ Summarized("pfx2as") =>
          LET expected == ExpectedPfx2as(ArtifactEntries(store, sum.rib_metas))
          IN  /\ SumTarget \in DOMAIN store
              /\ store[SumTarget].complete
              /\ store[SumTarget].doc.entries
                     = {[prefix |-> k[1], asn |-> k[2], count |-> expected[k]] :
                           k \in DOMAIN expected}
    /\ (/\ SumKind = "pfx2as"
        /\ sum.ret # "none"
        /\ sum.ignore_error
        /\ \A i \in 1..Len(sum.rib_metas) : ~Readable(store, sum.rib_metas[i]))
       => /\ sum.ret # "failed to read"
          /\ sum.ret = "ok" => store[SumTarget].doc.entries = {}

C17_Witness ==
    /\ Summarized("pfx2as")
    /\ sum.rib_metas = << Meta1, Meta2 >>
    /\ Readable(store, Meta1)
    /\ Readable(store, Meta2)
    /\ [prefix |-> "198.51.100.0/24", asn |-> 65002, count |-> 3]
           \in store[SumTarget].doc.entries

\* C18: the AsRelationship summary holds for every exact key (asn1, asn2,
\* rel) the sum of the occurrence counts and the sum of the observer counts
\* of the readable snapshot artifacts; keys that differ in rel or in the
\* order of the AS pair stay separate entries.
C18_As2relSum ==
    Summarized("as2rel") =>
        LET expected == ExpectedAs2rel(ArtifactEntries(store, sum.rib_metas))
        IN  /\ SumTarget \in DOMAIN store
            /\ store[SumTarget].complete
            /\ store[SumTarget].doc.entries
                   = {[asn1 |-> k[1], asn2 |-> k[2],
                       paths_count |-> expected[k].count,
                       peers_count |-> expected[k].peers, rel |-> k[3]] :
                         k \in DOMAIN expected}

C18_Witness ==
    /\ Summarized("as2rel")
    /\ sum.rib_metas = << Meta1, Meta2 >>
    /\ Readable(store, Meta1)
    /\ Readable(store, Meta2)
    /\ LET entries == store[SumTarget].doc.entries
       IN  /\ [asn1 |-> 65001, asn2 |-> 65002, paths_count |-> 2,
               peers_count |-> 2, rel |-> 0] \in entries
           /\ [asn1 |-> 65002, asn2 |-> 65001, paths_count |-> 1,
               peers_count |-> 1, rel |-> 0] \in entries
           /\ [asn1 |-> 65002, asn2 |-> 65001, paths_count |-> 1,
               peers_count |-> 1, rel |-> 1] \in entries

\* C19: the PrefixToDistance summary holds for every key (network,
\* reference AS) of a readable snapshot artifact the least of the key's
\* distances over those artifacts, and no other key.
C19_Pfx2distMin ==
    Summarized("pfx2dist") =>
        LET expected == ExpectedPfx2dist(ArtifactEntries(store, sum.rib_metas))
        IN  /\ SumTarget \in DOMAIN store
            /\ store[SumTarget].complete
            /\ store[SumTarget].doc.entries
                   = {[prefix |-> k[1], collector_asn |-> k[2],
                       distance |-> expected[k]] : k \in DOMAIN expected}

C19_Witness ==
    /\ Summarized("pfx2dist")
    /\ sum.rib_metas = << Meta1, Meta2 >>
    /\ Readable(store, Meta1)
    /\ Readable(store, Meta2)
    /\ LET entries == store[SumTarget].doc.entries
       IN  /\ [prefix |-> Net4A, collector_asn |-> 65001, distance |-> 2]
                  \in entries
           /\ [prefix |-> Net4B, collector_asn |-> 65001, distance |-> 2]
                  \in entries

\* what the loop of summarize_latest has merged when no read made it return
ExpectedMerge(st, rib_metas) ==
    LET arts == ArtifactEntries(st, rib_metas)
    IN  CASE SumKind = "peer-stats" -> ExpectedPeerStats(arts)
          [] SumKind = "pfx2as" -> ExpectedPfx2as(arts)
          [] SumKind = "as2rel" -> ExpectedAs2rel(arts)
          [] SumKind = "pfx2dist" -> ExpectedPfx2dist(arts)

\* the "latest" paths of the first n snapshots
LatestPaths(rib_metas, n) ==
    [i \in 1..n |-> GetLatestOutputPath(rib_metas[i], ProcessorMeta(SumKind))]

\* C20: in every processor's summarize_latest, with ignore_error set an
\* unreadable artifact is skipped and the other snapshots are still read
\* and merged; with ignore_error unset the call returns the error at the
\* first unreadable artifact, reads no further snapshot and writes nothing:
\* the store, the earlier summary with it, is as it was.
C20_UnreadableArtifact ==
    [][sum'.ret # "none" =>
          LET rib_metas == sum'.rib_metas
              unreadable == {i \in 1..Len(rib_metas) :
                                ~Readable(store, rib_metas[i])}
          IN  IF sum'.ignore_error \/ unreadable = {}
              THEN /\ sum'.ret # "failed to read"
                   /\ sum'.reads = LatestPaths(rib_metas, Len(rib_metas))
                   /\ sum'.merged = ExpectedMerge(store, rib_metas)
              ELSE /\ sum'.ret = "failed to read"
                   /\ sum'.reads = LatestPaths(rib_metas, Min(unreadable))
                   /\ store' = store]_vars

C20_Witness ==
    /\ sum.ret = "failed to read"
    /\ ~sum.ignore_error
    /\ sum.rib_metas = << Meta1, Meta2 >>
    /\ Len(sum.reads) = 1
    /\ sum.reads[1] \in DOMAIN store
    /\ ~store[sum.reads[1]].complete
    /\ Readable(store, Meta2)
    /\ SumTarget \in DOMAIN store
    /\ store[SumTarget].complete
    /\ store[SumTarget].doc.entries # {}

\* --------------------------------------- claims on the process_entry steps
\* value new of a key is not behind value old of the same key: counters do
\* not go down, distances do not go up, sets do not lose members, a flag
\* that was true stays true
NotBehind(kind, old, new) ==
    CASE kind = "peer-stats" ->
            /\ old.ipv4_pfxs \subseteq new.ipv4_pfxs
            /\ old.ipv6_pfxs \subseteq new.ipv6_pfxs
            /\ old.num_connected_asns \subseteq new.num_connected_asns
            /\ old.ipv4_default => new.ipv4_default
            /\ old.ipv6_default => new.ipv6_default
      [] kind = "pfx2as" -> new >= old
      [] kind = "as2rel" -> /\ new.count >= old.count
                            /\ old.peers \subseteq new.peers
      [] kind = "pfx2dist" -> new <= old

\* C22: every process_entry step is monotone on the aggregation state: no
\* key is removed, every occurrence counter is >= its previous value, every
\* PrefixToDistance distance is <= its previous value, every observer,
\* network and adjacency set is a superset of its previous value, and a
\* default-route flag once true stays true.
C22_Monotone ==
    [][fed' # fed =>
          LET old == processors[1].map
              new == processors'[1].map
          IN  /\ DOMAIN old \subseteq DOMAIN new
              /\ \A k \in DOMAIN old :
                    NotBehind(processors[1].kind, old[k], new[k])]_vars

\* one key recorded three times, by two observers: the counter went up at
\* every step and the observer set never lost a member
C22_Witness ==
    /\ processors[1].kind = "as2rel"
    /\ Len(fed) = 3
    /\ fed[1] = Elem("ANNOUNCE", Peer1, 64500, Net4A, PathAB)
    /\ fed[2] = Elem("ANNOUNCE", Peer2, 64501, Net4A, PathAB)
    /\ fed[3] = Elem("ANNOUNCE", Peer1, 64500, Net4A, PathAB)
    /\ processors[1].map[<< 65001, 65002, 0 >>] =
           [count |-> 3, peers |-> {Peer1, Peer2}]

\* an element PrefixToOrigin, AsRelationship and PrefixToDistance skip: a
\* WITHDRAW, a default route, or an element without a usable AS path
Skipped(e) ==
    \/ e.elem_type # "ANNOUNCE"
    \/ e.prefix.len = 0
    \/ ~e.as_path.present
    \/ ~IsSome(To_u32_vec_opt(e.as_path, TRUE))
    \/ Len(Unwrap(To_u32_vec_opt(e.as_path, TRUE))) = 0

\* C23: process_entry of every built-in processor returns success for every
\* element; for PrefixToOrigin, AsRelationship and PrefixToDistance a skipped
\* element (WITHDRAW, prefix length 0, no usable path) leaves the
\* aggregation state exactly unchanged.
C23_SkippedLeavesState ==
    [][fed' # fed =>
          /\ result' = "ok"
          /\ (/\ Skipped(Last(fed'))
              /\ processors[1].kind \in {"pfx2as", "as2rel", "pfx2dist"})
                 => processors' = processors]_vars

\* a counted element, then a WITHDRAW, a default route, and an element
\* without a path: the state is the one the first element left
C23_Witness ==
    /\ processors[1].kind = "pfx2dist"
    /\ Len(fed) = 3
    /\ fed[1] = Elem("ANNOUNCE", Peer1, 64500, Net4A, PathAB)
    /\ fed[2] = Elem("WITHDRAW", Peer1, 64500, Net4A, PathAB)
    /\ fed[3] = Elem("ANNOUNCE", Peer1, 64500, Net4Default, PathAB)
    /\ result = "ok"
    /\ DOMAIN processors[1].map = {<< Net4A, 65001 >>}

\* C30: after any sequence of process_entry calls every AsRelationship key
\* (code 0 or code 1) has an occurrence count of at least 1 and between 1
\* and that count distinct observers: 1 <= peers_count <= paths_count in
\* every output entry.
C30_PeersWithinPaths ==
    processors[1].kind = "as2rel" =>
        /\ \A k \in DOMAIN processors[1].map :
              /\ k[3] \in {0, 1}
              /\ processors[1].map[k].count >= 1
              /\ Cardinality(processors[1].map[k].peers) >= 1
              /\ Cardinality(processors[1].map[k].peers)
                     <= processors[1].map[k].count
        /\ \A e \in Entries(processors[1]) :
              1 <= e.peers_count /\ e.peers_count <= e.paths_count

\* a code-1 key seen twice by one observer next to a code-0 key seen once
\* by the other
C30_Witness ==
    /\ processors[1].kind = "as2rel"
    /\ Len(fed) = 3
    /\ << 65002, 65001, 1 >> \in DOMAIN processors[1].map
    /\ processors[1].map[<< 65002, 65001, 1 >>] =
           [count |-> 2, peers |-> {Peer1}]
    /\ << 65001, 65002, 0 >> \in DOMAIN processors[1].map
    /\ processors[1].map[<< 65001, 65002, 0 >>] =
           [count |-> 1, peers |-> {Peer2}]

\* ------------------------------------------------- claims on the artifacts
\* C24: every write of an artifact is all-or-nothing per target: a reader
\* of a target sees the complete previous content (or nothing) or the
\* complete new content, never a partially written artifact.
C24_AllOrNothing ==
    \A t \in DOMAIN store : store[t].complete

\* a processor of the given kind that went through the first n runs alone,
\* with no other processor registered: the same elements, and before each
\* run the RibMeta the coordinator held then
RECURSIVE Alone(_, _)
Alone(kind, n) ==
    IF n = 0 THEN NewProcessor(kind)
    ELSE LET before == Alone(kind, n - 1)
             prior == IF IsSome(hist[n].meta)
                      THEN ResetProcessor(before, Unwrap(hist[n].meta))
                      ELSE before
         IN  ProcessAll(prior, src, Len(src))

\* C28: no processor observes or mutates another processor's state: after
\* runs that completed without error, the state and the result document of
\* a processor are the ones it has when it is the only processor
\* registered and goes through the same elements from the same prior
\* state, whichever other processors are registered and in whichever order.
C28_Isolation ==
    (pc = "idle" /\ Len(processors) > 0) =>
        /\ \A i \in 1..Len(processors) :
              processors[i].map = Alone(processors[i].kind, Len(hist)).map
        /\ \A r \in 1..Len(hist) : \A i \in 1..Len(hist[r].docs) :
              hist[r].docs[i] = ToResultString(Alone(processors[i].kind, r))

\* two runs that returned Ok over a file with an ANNOUNCE, with two
\* built-in processors registered
C28_Witness ==
    /\ pc = "idle"
    /\ run = 2
    /\ Len(hist) = 2
    /\ Len(processors) = 2
    /\ processors[1].kind = "pfx2as"
    /\ processors[2].kind = "as2rel"
    /\ << PrefixToString(Net4A), 65002 >> \in DOMAIN processors[1].map
    /\ processors[1].map[<< PrefixToString(Net4A), 65002 >>] = 2
    /\ << 65001, 65002, 0 >> \in DOMAIN processors[2].map
    /\ processors[2].map[<< 65001, 65002, 0 >>].count = 2

\* C29: the source-locator list of a summary artifact holds exactly the
\* locators of the snapshots whose per-snapshot artifact was read and
\* folded in; the locator of a snapshot skipped as unreadable is not listed.
C29_SourceLocators ==
    (sum.ret = "ok") =>
        LET contributed == SelectSeq(sum.rib_metas,
                                     LAMBDA meta : Readable(store, meta))
        IN  store[SumTarget].doc.rib_dump_urls
                = [i \in 1..Len(contributed) |-> contributed[i].rib_dump_url]

\* ----------------------------------------------- claims on the cook command
\* the summary target of registered processor j
SummaryTarget(j) == SummaryPath(ProcessorMeta(processors[j].kind))

\* what is stored at path in st, None when nothing is
Stored(st, path) == IF path \in DOMAIN st THEN Some(st[path]) ELSE None

\* C21: summarize_latest_files asks every registered processor, in
\* registration order, to summarize the same snapshot list with
\* error-skipping enabled; a failure of one processor's summarize does not
\* prevent the summarize of the processors after it and does not alter the
\* summary written by the processors before it.
C21_SummarizeEveryProcessor ==
    [][log' # log =>
          LET k == Len(log')
          IN  /\ log' = Append(log, Call("summarize_latest", k, 0, sum'.ret))
              /\ sum'.rib_metas = cook.rib_metas
              /\ sum'.ignore_error
              /\ \A j \in 1..Len(processors) :
                    j # k => Stored(store', SummaryTarget(j))
                                 = Stored(store, SummaryTarget(j))
              /\ IF k < Len(processors)
                 THEN pc' = "summarizing" /\ pi' = k + 1
                 ELSE pc' = "done"]_vars

\* the first processor's summary could not be written, the second one's was
C21_Witness ==
    /\ pc = "done"
    /\ Len(processors) = 2
    /\ Len(log) = 2
    /\ log[1].ret = "write failed"
    /\ log[2].ret = "ok"
    /\ SummaryTarget(1) \notin DOMAIN store
    /\ SummaryTarget(2) \in DOMAIN store
    /\ store[SummaryTarget(2)].complete
    /\ store[SummaryTarget(2)].doc.entries # {}

\* the archival target of processor j of the coordinator of snapshot i
Archive(i, j) ==
    GetDefaultOutputPath(cook.rib_metas[i], ProcessorMeta(processors[j].kind))

\* the coordinators that have derived their targets, and their processors
Writers ==
    {i \in DOMAIN cook.inst : cook.inst[i].pc # "start"}
        \X (1..Len(processors))

\* C25: the archival location of a (processor, snapshot) pair is a function
\* of processor name, output root, collector and timestamp and is injective
\* in them: two snapshots that differ in collector or in exact timestamp
\* (two dumps of one collector on one day included), or two processors,
\* never get the same location, so coordinators running concurrently on
\* distinct snapshots never write the same archival target.
C25_ArchiveInjective ==
    /\ \A v \in Writers, w \in Writers :
          (cook.inst[v[1]].archive[v[2]] = cook.inst[w[1]].archive[w[2]])
          <=> (/\ processors[v[2]].kind = processors[w[2]].kind
               /\ cook.rib_metas[v[1]].collector
                      = cook.rib_metas[w[1]].collector
               /\ cook.rib_metas[v[1]].timestamp.secs
                      = cook.rib_metas[w[1]].timestamp.secs)
    /\ \A w \in Writers :
          Archive(w[1], w[2]) \in DOMAIN cook.files =>
              LET blocks == cook.files[Archive(w[1], w[2])]
              IN  \A x \in 1..Len(blocks) :
                     blocks[x] = Block(InstDoc(w[1], w[2]), x)

\* two dumps of rrc00 of the same day, cooked side by side: two archival
\* artifacts, each whole
C25_Witness ==
    /\ Len(cook.rib_metas) = 2
    /\ {cook.rib_metas[1], cook.rib_metas[2]} = {Meta1, Meta3}
    /\ Joined
    /\ Archive(1, 1) # Archive(2, 1)
    /\ Stored(store, Archive(1, 1)) = Some(Whole(InstDoc(1, 1)))
    /\ Stored(store, Archive(2, 1)) = Some(Whole(InstDoc(2, 1)))

\* the "latest" target of processor j of the coordinator of snapshot i
Latest(i, j) ==
    GetLatestOutputPath(cook.rib_metas[i], ProcessorMeta(processors[j].kind))

\* C26: when coordinators running concurrently write the same "latest" key,
\* the key holds, once they have finished, the complete result document of
\* exactly one of them, never a mixture, and the archival artifacts of all
\* of them are unaffected.
C26_LastWriterWins ==
    Joined =>
        \A w \in Writers :
            /\ \E v \in Writers :
                  /\ Latest(v[1], v[2]) = Latest(w[1], w[2])
                  /\ Stored(store, Latest(w[1], w[2]))
                         = Some(Whole(InstDoc(v[1], v[2])))
            /\ Stored(store, Archive(w[1], w[2]))
                   = Some(Whole(InstDoc(w[1], w[2])))

\* C27: in the cook command the summarize phase starts only after every
\* per-file run has finished, no summarize read of a snapshot artifact
\* overlaps a run's write, and within summarize each processor reads the
\* snapshot artifacts strictly in the order of the snapshot list.
C27_SummarizeAfterRuns ==
    [][/\ (pc' = "summarizing" \/ sum' # sum) =>
              /\ \A i \in 1..Len(cook.inst) : cook.inst[i].pc = "done"
              /\ cook' = cook
       /\ sum' # sum =>
              sum'.reads = [i \in 1..Len(cook.rib_metas) |->
                               Latest(i, Len(log'))]]_vars

\* both coordinators have finished, the first processor has read the
\* artifact of the second snapshot after that of the first
C27_Witness ==
    /\ pc = "summarizing"
    /\ Len(cook.rib_metas) = 2
    /\ Joined
    /\ Len(log) = 1
    /\ sum.reads = << Latest(1, 1), Latest(2, 1) >>
    /\ Latest(1, 1) # Latest(2, 1)
    /\ DOMAIN sum.merged # {}

\* C31: in the PeerStats state after any sequence of process_entry calls, a
\* peer record whose IPv4 (IPv6) default-route flag is true has the
\* zero-length prefix of that family in its network set, so in every output
\* entry has_v4_default implies num_v4_pfxs >= 1 and has_v6_default implies
\* num_v6_pfxs >= 1.
C31_DefaultFlagHasPrefix ==
    processors[1].kind = "peer-stats" =>
        /\ \A ip \in DOMAIN processors[1].map :
              LET info == processors[1].map[ip]
              IN  /\ info.ipv4_default =>
                        \E n \in info.ipv4_pfxs : n.fam = 4 /\ n.len = 0
                  /\ info.ipv6_default =>
                        \E n \in info.ipv6_pfxs : n.fam = 6 /\ n.len = 0
        /\ \A out \in Entries(processors[1]) :
              /\ out.has_v4_default => out.num_v4_pfxs >= 1
              /\ out.has_v6_default => out.num_v6_pfxs >= 1

C31_Witness ==
    /\ processors[1].kind = "peer-stats"
    /\ Len(fed) = 3
    /\ fed[1] = Elem("ANNOUNCE", Peer1, 64500, Net6Default, PathAB)
    /\ fed[2] = Elem("ANNOUNCE", Peer2, 64501, Net4A, PathAB)
    /\ fed[3] = Elem("ANNOUNCE", Peer1, 64500, Net4A, PathAB)
    /\ LET out == PeerInfoEntry(processors[1].map[Peer1])
           other == PeerInfoEntry(processors[1].map[Peer2])
       IN  /\ out.has_v6_default /\ out.num_v6_pfxs = 1
           /\ ~out.has_v4_default /\ out.num_v4_pfxs = 1
           /\ ~other.has_v4_default /\ ~other.has_v6_default
           /\ other.num_v4_pfxs = 1

\* the lengths of the paths processed for PrefixToDistance key (net, asn)
\* in the first n elements of the dump of snapshot meta
PrefixLengths(meta, n, net, asn) ==
    {Len(U32Path(RibDump(meta)[i])) :
        i \in {j \in 1..n : Pfx2distQualifying(RibDump(meta)[j], net, asn)}}

\* the same over the whole dumps of the snapshots in metas
PathLengths(metas, net, asn) ==
    UNION {PrefixLengths(meta, Len(RibDump(meta)), net, asn) : meta \in metas}

\* distance d stored for key is not the seed: it is at least 1 and is the
\* length of a path among lengths
NotSeed(d, lengths) == d >= 1 /\ d # U32_MAX /\ d \in lengths

\* the snapshots of a summarize_latest call over rib_metas
MetasOf(rib_metas) == {rib_metas[i] : i \in 1..Len(rib_metas)}

\* C32: the PrefixToDistance seed u32::MAX is never observable: after every
\* process_entry call, in every per-snapshot result document and in every
\* summary merged from such documents, each stored distance is at least 1
\* and equals the length of some path processed for that key.
C32_SeedNeverObservable ==
    SumKind = "pfx2dist" =>
        /\ \A meta \in Metas :
              \A n \in 0..Len(RibDump(meta)) :
                 LET fresh == ResetProcessor(NewProcessor("pfx2dist"), meta)
                     p == ProcessAll(fresh, RibDump(meta), n)
                 IN  /\ \A k \in DOMAIN p.map :
                           NotSeed(p.map[k], PrefixLengths(meta, n, k[1], k[2]))
                     /\ \A x \in Unwrap(ToResultString(p)).entries :
                           NotSeed(x.distance,
                                   PrefixLengths(meta, n, x.prefix,
                                                 x.collector_asn))
        /\ \A meta \in Metas :
              \A t \in {GetDefaultOutputPath(meta, ProcessorMeta(SumKind)),
                        GetLatestOutputPath(meta, ProcessorMeta(SumKind))} :
                 t \in DOMAIN store =>
                    \A x \in store[t].doc.entries :
                       NotSeed(x.distance,
                               PathLengths({meta}, x.prefix, x.collector_asn))
        /\ sum.ret # "none" =>
              \A k \in DOMAIN sum.merged :
                 NotSeed(sum.merged[k],
                         PathLengths(MetasOf(sum.rib_metas), k[1], k[2]))
        /\ SumTarget \in DOMAIN store =>
              LET doc == store[SumTarget].doc
                  listed == {m \in Metas :
                                \E i \in DOMAIN doc.rib_dump_urls :
                                   doc.rib_dump_urls[i] = m.rib_dump_url}
              IN  \A x \in doc.entries :
                     NotSeed(x.distance,
                             PathLengths(listed, x.prefix, x.collector_asn))

C32_Witness ==
    /\ Summarized("pfx2dist")
    /\ sum.rib_metas = << Meta2, Meta1 >>
    /\ Readable(store, Meta1)
    /\ Readable(store, Meta2)
    /\ store[SumTarget].doc.entries
          = {[prefix |-> Net4A, collector_asn |-> 65001, distance |-> 2],
             [prefix |-> Net4A, collector_asn |-> 65003, distance |-> 4],
             [prefix |-> Net4B, collector_asn |-> 65001, distance |-> 2]}

\* the orders the snapshots of rib_metas can be listed in
Reorderings(rib_metas) ==
    {[i \in 1..Len(rib_metas) |-> rib_metas[f[i]]] :
        f \in Permutations(1..Len(rib_metas))}

\* C33: the merges of PrefixToOrigin, AsRelationship and PrefixToDistance do
\* not depend on the order of the snapshots nor on the summary written
\* before: once summarize_latest has returned Ok, a call over any
\* reordering of the same snapshot list and the unchanged artifacts merges
\* the same set of entries, and the repeated call leaves the summary it
\* found, with nothing added onto it.
C33_MergeOrderFree ==
    (SumKind \in {"pfx2as", "as2rel", "pfx2dist"} /\ sum.ret = "ok") =>
        /\ SumTarget \in DOMAIN store
        /\ \A again \in Reorderings(sum.rib_metas) :
              LET p == processors[1]
                  loop == SummarizeLoop(SumKind, store, again, 1,
                                        sum.ignore_error, LoopStart)
              IN  /\ ~loop.failed
                  /\ SummaryEntries(p, loop.map) = store[SumTarget].doc.entries
                  /\ \A o \in WriteOutputFile(store, ProcessorMeta(SumKind),
                                               SummaryJson(p, again, loop.map)) :
                        o.ret = "ok" =>
                           /\ o.store[SumTarget].doc.entries
                                 = store[SumTarget].doc.entries
                           /\ again = sum.rib_metas => o.store = store

C33_Witness ==
    /\ Summarized("as2rel")
    /\ sum.rib_metas = << Meta2, Meta1 >>
    /\ Readable(store, Meta1)
    /\ Readable(store, Meta2)
    /\ ArtifactEntries(store, sum.rib_metas)[1]
          # ArtifactEntries(store, sum.rib_metas)[2]
    /\ [asn1 |-> 65001, asn2 |-> 65002, paths_count |-> 2,
        peers_count |-> 2, rel |-> 0] \in store[SumTarget].doc.entries

====
